---- MODULE Spec2Model ----
(***************************************************************************)
(* Model of the page objects of the OpenMRS UI automation suite:           *)
(*   PatientSearchPage.searchPatient / extractPatients   (HomePage.ts)     *)
(*   HomePage.getWelcomeMessageParts                     (HomePage.ts)     *)
(*   LoginPage.login / selectLocation / getLocationOptions (LoginPage.ts)  *)
(*   PatientDetailPage.getPatientGender / getPatientAge /                  *)
(*     getPatientBirthdate                        (PatientDetailPage.ts)   *)
(*                                                                         *)
(* Text is a sequence of one-character strings, so that trim, toLowerCase, *)
(* includes and the regular expressions of the source are computed, not    *)
(* assumed.  A program counter names the await at which an async method    *)
(* is suspended; the code between two awaits runs to completion, and the   *)
(* page (the DOM) may change only while a method is suspended.             *)
(***************************************************************************)
EXTENDS Integers, Sequences, FiniteSets, TLC

VARIABLES
    \* ---- PatientSearchPage.searchPatient
    pc,           \* the await searchPatient is suspended at
    query,        \* the argument of searchPatient
    rows,         \* live DOM: the rows of 'table tbody tr:not(.dataTables_empty)'
    oldRowTexts,  \* the baseline: allTextContents() before the action
    waitResult,   \* how page.waitForFunction ended: "None" | "Matched" | "TimedOut"
    polls,        \* polls of the predicate made so far by waitForFunction
    attempt,      \* the loop variable of the retry loop
    patients,     \* the local 'patients'
    result,       \* the value returned by searchPatient (NoResult before)
    events,       \* history: the primitives dispatched by the current call, in order
    \* ---- HomePage.getWelcomeMessageParts
    h4Text,       \* textContent of the h4 element (loginUserInfo)
    welcome,      \* the {U, Role, L} the h4 text was rendered from
    parts,        \* the value returned by getWelcomeMessageParts
    \* ---- LoginPage.login
    loginPc,      \* the await login is suspended at
    shape,        \* tagName of the location control: "SELECT" | "UL" | "none"
    options,      \* the labels of the location control, in document order
    username,     \* argument of login
    password,     \* argument of login
    location,     \* argument of login (a label or 'random')
    selected,     \* the label the page has selected (NoLabel before)
    loginEvents,  \* history: the primitives dispatched by login, in order
    listed,       \* the value returned by getLocationOptions (NotListed before)
    \* ---- PatientDetailPage.getPatientGender / getPatientAge / getPatientBirthdate
    elements,     \* live DOM: the elements of the page, in document order
    genderPc,     \* the await getPatientGender is suspended at
    genderProbes, \* history: the locators getPatientGender has read
    patientGender,  \* the value returned by getPatientGender (NotRead before)
    agePc,        \* the await getPatientAge is suspended at
    patientAge,   \* the value returned by getPatientAge (NotRead before)
    birthdatePc,  \* the await getPatientBirthdate is suspended at
    selectorIndex,  \* the position of the loop over 'selectors'
    birthdateProbes,  \* history: the probes getPatientBirthdate has consulted
    patientBirthdate, \* the value returned by getPatientBirthdate (NotRead before)
    \* ---- LoginPage.selectLocation
    handed,       \* the label handed to selectOption / selectLocationButton
    \* ---- PatientSearchPage.selectPatient / getPatientInfo
    clicked,      \* the index of the row selectPatient has clicked (-1 before)
    selection,    \* the value returned by searchAndSelectPatient /
                  \* selectPatientFromResults (NoSelection before)
    info,         \* the value returned by getPatientInfo (NoInfo before)
    \* ---- PatientDetailPage.getComprehensivePatientData
    comprehensivePc,  \* the await getComprehensivePatientData is suspended at
    inFlight,     \* per operation: page primitives still to settle, the first
                  \* of them being in flight (0: not called, or returned)
    \* ---- PatientDetailPage.getPatientDiagnoses / Visits / Observations
    sectionName,  \* which of the three readers is called
    sectionPresent,  \* live DOM: the h3 of the section is on the page
    sectionLists, \* live DOM: per selector, the texts of the elements it matches
    sectionPc,    \* the await the reader is suspended at
    sectionSelector,  \* the position of the loop over the selectors
    sectionProbes,  \* history: the page primitives awaited after the gate
    sectionRerenders,  \* how often the application has re-rendered the section
    entries,      \* the value returned by the reader (NotReturned before)
    \* ---- ApiHelpers
    apiPc,        \* "idle", or "raised" when the last operation raised
    sessionId,    \* this.sessionId (NoSession: undefined)
    apiLog,       \* history: the operations done, with the Cookie header sent
    \* ---- DataSeeder
    seederPc,     \* the await seedPatientsForSearch / cleanup is suspended at
    createdPatients,  \* this.createdPatients
    seedIndex,    \* the position of the loop over testPatients
    nextUuid,     \* the server: the uuid of the next patient it creates
    serverPatients,  \* the server: the uuids of the patients it holds
    createdSince, \* history: uuids createTestPatient returned since the last cleanup
    deletesIssued \* history: the uuids the last cleanup issued a delete for

vars == << pc, query, rows, oldRowTexts, waitResult, polls, attempt, patients,
           result, events, h4Text, welcome, parts,
           loginPc, shape, options, username, password, location, selected,
           loginEvents, listed,
           elements, genderPc, genderProbes, patientGender, agePc, patientAge,
           birthdatePc, selectorIndex, birthdateProbes, patientBirthdate,
           handed, clicked, selection, info, comprehensivePc, inFlight,
           sectionName, sectionPresent, sectionLists, sectionPc,
           sectionSelector, sectionProbes, sectionRerenders, entries,
           apiPc, sessionId, apiLog,
           seederPc, createdPatients, seedIndex, nextUuid, serverPatients,
           createdSince, deletesIssued >>

selectVars == << clicked, selection, info >>
searchVars == << pc, query, rows, oldRowTexts, waitResult, polls, attempt,
                 patients, result, events, selectVars >>
welcomeVars == << h4Text, welcome, parts >>
loginVars == << loginPc, shape, options, username, password, location, selected,
           loginEvents, listed, handed >>
comprehensiveVars == << comprehensivePc, inFlight >>
sectionVars == << sectionName, sectionPresent, sectionLists, sectionPc,
                 sectionSelector, sectionProbes, sectionRerenders, entries >>
apiVars == << apiPc, sessionId, apiLog >>
seederVars == << seederPc, createdPatients, seedIndex, nextUuid, serverPatients,
                createdSince, deletesIssued >>
restVars == << comprehensiveVars, sectionVars, apiVars, seederVars >>
detailVars == << elements, genderPc, genderProbes, patientGender, agePc, patientAge,
                birthdatePc, selectorIndex, birthdateProbes, patientBirthdate >>

(***************************************************************************)
(* Bounds of the model.                                                    *)
(***************************************************************************)
MaxRows == 2      \* rows the result table holds at most
MaxPolls == 2     \* polls of waitForFunction that fit before its 10 s deadline
MaxLiveRows == 1  \* rows of the result table under LiveSpec

(***************************************************************************)
(* Text: String.prototype.trim / toLowerCase / includes.                   *)
(***************************************************************************)
IsSpace(c) == c \in {" ", "\n", "\t"}

ToLowerChar(c) ==
    CASE c = "A" -> "a"
      [] c = "B" -> "b"
      [] c = "C" -> "c"
      [] c = "D" -> "d"
      [] c = "I" -> "i"
      [] c = "L" -> "l"
      [] c = "N" -> "n"
      [] c = "O" -> "o"
      [] c = "P" -> "p"
      [] c = "R" -> "r"
      [] c = "W" -> "w"
      [] OTHER -> c

toLowerCase(s) == [i \in 1..Len(s) |-> ToLowerChar(s[i])]

trim(s) ==
    LET keep == {i \in 1..Len(s) : ~IsSpace(s[i])}
    IN  IF keep = {} THEN << >>
        ELSE LET lo == CHOOSE i \in keep : \A j \in keep : i <= j
                 hi == CHOOSE i \in keep : \A j \in keep : j <= i
             IN  SubSeq(s, lo, hi)

includes(s, t) ==
    \E i \in 0..(Len(s) - Len(t)) : SubSeq(s, i + 1, i + Len(t)) = t

\* the text the value undefined turns into
undefined == <<"u", "n", "d", "e", "f", "i", "n", "e", "d">>

RECURSIVE Concat(_)
Concat(ss) == IF ss = << >> THEN << >> ELSE Head(ss) \o Concat(Tail(ss))

(***************************************************************************)
(* The result table.  A row is the sequence of the texts of its td cells;  *)
(* Node.textContent of the row is the concatenation of its cells' texts.   *)
(***************************************************************************)
textContent(row) == Concat(row)

RowUniverse ==
    { << <<"b">>, <<"a">> >>,        \* id "b", name "a"
      << <<"b">>, <<"A", " ">> >>,   \* id "b", name "A " (rendered with padding)
      << <<"a">>, <<"b">> >>,        \* id "a", name "b"
      << <<"a">> >> }                \* a row of one cell

Queries == { <<"a">>, <<"B">> }

RECURSIVE SeqsUpTo(_, _)
SeqsUpTo(S, n) ==
    IF n = 0 THEN { << >> }
    ELSE LET shorter == SeqsUpTo(S, n - 1)
         IN  shorter \cup { Append(s, x) : s \in shorter, x \in S }

RECURSIVE DistinctSeqsUpTo(_, _)
DistinctSeqsUpTo(S, n) ==
    IF n = 0 THEN { << >> }
    ELSE LET shorter == DistinctSeqsUpTo(S, n - 1)
         IN  shorter \cup
             UNION { { Append(s, x) : x \in S \ {s[i] : i \in 1..Len(s)} } :
                     s \in shorter }

\* the states of the result table: up to MaxRows distinct rows, in any order
RowLists == DistinctSeqsUpTo(RowUniverse, MaxRows)
LiveRowLists == DistinctSeqsUpTo(RowUniverse, MaxLiveRows)

\* locator.allTextContents(): the raw textContent of every row, untrimmed
allTextContents(rs) == [i \in 1..Len(rs) |-> textContent(rs[i])]

(***************************************************************************)
(* PatientSearchPage                                                       *)
(***************************************************************************)
MaxAttempts == 5

NoResult == [success |-> FALSE, hasResults |-> FALSE, resultCount |-> -1,
             patients |-> << >>, message |-> "none"]

\* what searchAndSelectPatient / selectPatientFromResults and getPatientInfo
\* have returned, before they are called
NoSelection == [success |-> FALSE, selectedPatient |-> << >>, message |-> "none"]
NoInfo == [index |-> -1, name |-> <<"?">>, id |-> <<"?">>, age |-> <<"?">>,
           gender |-> <<"?">>]

\* the predicate handed to page.waitForFunction
waitPredicate(rs, previousTexts, q) ==
    LET currentTexts == [i \in 1..Len(rs) |-> trim(textContent(rs[i]))]
        previous == {previousTexts[i] : i \in 1..Len(previousTexts)}
    IN  /\ Len(currentTexts) > 0
        /\ \E i \in 1..Len(currentTexts) :
              /\ currentTexts[i] \notin previous
              /\ includes(toLowerCase(currentTexts[i]), toLowerCase(q))

\* mutant: the index recorded is the 1-based position of the row
extractRowOneBased(rs, q, i) ==
    LET cells == rs[i + 1]
        cellCount == Len(cells)
    IN  IF /\ cellCount >= 2
           /\ trim(cells[2]) # << >>
           /\ includes(toLowerCase(trim(cells[2])), toLowerCase(q))
        THEN << [index |-> i + 1, name |-> trim(cells[2]), id |-> trim(cells[1]),
                 gender |-> IF cellCount > 2 THEN trim(cells[3]) ELSE << >>,
                 age |-> IF cellCount > 3 THEN trim(cells[4]) ELSE << >>] >>
        ELSE << >>

\* the body of the for loop of extractPatients, for the row at index i (0-based)
extractRow(rs, q, i) ==
    LET cells == rs[i + 1]
        cellCount == Len(cells)
        name == trim(cells[2])
        id == trim(cells[1])
        gender == IF cellCount > 2 THEN trim(cells[3]) ELSE << >>
        age == IF cellCount > 3 THEN trim(cells[4]) ELSE << >>
    IN  IF /\ cellCount >= 2
           /\ name # << >>
           /\ includes(toLowerCase(name), toLowerCase(q))
        THEN << [index |-> i, name |-> name, id |-> id, gender |-> gender, age |-> age] >>
        ELSE << >>

RECURSIVE extractFrom(_, _, _)
extractFrom(rs, q, i) ==
    IF i >= Len(rs) THEN << >>
    ELSE extractRow(rs, q, i) \o extractFrom(rs, q, i + 1)

extractPatients(rs, q) == extractFrom(rs, q, 0)

\* the object searchPatient returns
searchResult(ps) ==
    [success |-> TRUE,
     hasResults |-> Len(ps) > 0,
     resultCount |-> Len(ps),
     patients |-> ps,
     message |-> IF Len(ps) > 0 THEN "Found" ELSE "No patients found"]

\* searchPatient(query) is called
Call ==
    /\ pc = "idle"
    /\ \E q \in Queries : query' = q
    /\ pc' = "clear"
    /\ oldRowTexts' = << >>
    /\ waitResult' = "None"
    /\ polls' = 0
    /\ attempt' = 0
    /\ patients' = << >>
    /\ result' = NoResult
    /\ events' = << >>
    /\ clicked' = -1
    /\ selection' = NoSelection
    /\ info' = NoInfo
    /\ UNCHANGED << rows, welcomeVars, loginVars, detailVars, restVars >>

\* await this.searchInput.fill('')
ClearInput ==
    /\ pc = "clear"
    /\ pc' = "settle"
    /\ events' = Append(events, "clear")
    /\ UNCHANGED << query, rows, oldRowTexts, waitResult, polls, attempt, patients,
                    result, selectVars, welcomeVars, loginVars, detailVars,
                    restVars >>

\* mutant: the baseline is never captured
SettleSkipsBaseline ==
    /\ pc = "settle"
    /\ pc' = "fill"
    /\ UNCHANGED << query, rows, oldRowTexts, waitResult, polls, attempt, patients,
                    result, events, selectVars, welcomeVars, loginVars, detailVars,
                    restVars >>

\* await this.page.waitForTimeout(300)
Settle ==
    /\ pc = "settle"
    /\ pc' = "snapshot"
    /\ UNCHANGED << query, rows, oldRowTexts, waitResult, polls, attempt, patients,
                    result, events, selectVars, welcomeVars, loginVars, detailVars,
                    restVars >>

\* const oldRowTexts = await ...allTextContents()
CaptureBaseline ==
    /\ pc = "snapshot"
    /\ oldRowTexts' = allTextContents(rows)
    /\ pc' = "fill"
    /\ events' = Append(events, "baseline")
    /\ UNCHANGED << query, rows, waitResult, polls, attempt, patients, result,
                    selectVars, welcomeVars, loginVars, detailVars,
                    restVars >>

\* await this.searchInput.fill(query)
FillQuery ==
    /\ pc = "fill"
    /\ pc' = "press"
    /\ events' = Append(events, "fill")
    /\ UNCHANGED << query, rows, oldRowTexts, waitResult, polls, attempt, patients,
                    result, selectVars, welcomeVars, loginVars, detailVars,
                    restVars >>

\* await this.searchInput.press('Enter')
PressEnter ==
    /\ pc = "press"
    /\ pc' = "waiting"
    /\ events' = Append(events, "enter")
    /\ UNCHANGED << query, rows, oldRowTexts, waitResult, polls, attempt, patients,
                    result, selectVars, welcomeVars, loginVars, detailVars,
                    restVars >>

\* mutant: the rejection of the wait is not caught
PollUncaught ==
    /\ pc = "waiting"
    /\ events' = Append(events, "poll")
    /\ IF waitPredicate(rows, oldRowTexts, query)
       THEN /\ waitResult' = "Matched"
            /\ pc' = "extracting"
            /\ polls' = polls
       ELSE IF polls + 1 < MaxPolls
       THEN /\ waitResult' = waitResult
            /\ pc' = "waiting"
            /\ polls' = polls + 1
       ELSE /\ waitResult' = "TimedOut"
            /\ pc' = "raised"
            /\ polls' = polls + 1
    /\ UNCHANGED << query, rows, oldRowTexts, attempt, patients, result,
                    selectVars, welcomeVars, loginVars, detailVars,
                    restVars >>

\* mutant: the wait has no deadline (timeout: 0)
PollNoDeadline ==
    /\ pc = "waiting"
    /\ waitPredicate(rows, oldRowTexts, query)
    /\ events' = Append(events, "poll")
    /\ waitResult' = "Matched"
    /\ pc' = "extracting"
    /\ UNCHANGED << query, rows, oldRowTexts, polls, attempt, patients, result,
                    selectVars, welcomeVars, loginVars, detailVars,
                    restVars >>

\* one poll of page.waitForFunction(..., { timeout: 10000 }).catch(...):
\* the wait resolves when the predicate holds, is polled again while the
\* deadline has not passed, and rejects at the deadline; the rejection is
\* caught and logged.  Either way the retry loop is entered with attempt = 0.
Poll ==
    /\ pc = "waiting"
    /\ events' = Append(events, "poll")
    /\ IF waitPredicate(rows, oldRowTexts, query)
       THEN /\ waitResult' = "Matched"
            /\ pc' = "extracting"
            /\ polls' = polls
       ELSE IF polls + 1 < MaxPolls
       THEN /\ waitResult' = waitResult
            /\ pc' = "waiting"
            /\ polls' = polls + 1
       ELSE /\ waitResult' = "TimedOut"
            /\ pc' = "extracting"
            /\ polls' = polls + 1
    /\ UNCHANGED << query, rows, oldRowTexts, attempt, patients, result,
                    selectVars, welcomeVars, loginVars, detailVars,
                    restVars >>

\* patients = await this.extractPatients(query); if (patients.length > 0) break;
\* after the break the result object is built and returned without an await
Extract ==
    /\ pc = "extracting"
    /\ patients' = extractPatients(rows, query)
    /\ events' = Append(events, "extract")
    /\ IF Len(patients') > 0
       THEN /\ result' = searchResult(patients')
            /\ pc' = "done"
       ELSE /\ result' = result
            /\ pc' = "sleeping"
    /\ UNCHANGED << query, rows, oldRowTexts, waitResult, polls, attempt,
                    selectVars, welcomeVars, loginVars, detailVars,
                    restVars >>

\* mutant: the loop bound is off by one (attempt <= 5)
SleepOffByOne ==
    /\ pc = "sleeping"
    /\ attempt' = attempt + 1
    /\ events' = Append(events, "sleep")
    /\ IF attempt' <= MaxAttempts
       THEN /\ pc' = "extracting"
            /\ result' = result
       ELSE /\ pc' = "done"
            /\ result' = searchResult(patients)
    /\ UNCHANGED << query, rows, oldRowTexts, waitResult, polls, patients,
                    selectVars, welcomeVars, loginVars, detailVars,
                    restVars >>

\* mutant: a retry starts the whole cycle again
SleepRestartsCycle ==
    /\ pc = "sleeping"
    /\ attempt' = attempt + 1
    /\ events' = Append(events, "sleep")
    /\ IF attempt' < MaxAttempts
       THEN /\ pc' = "snapshot"
            /\ result' = result
       ELSE /\ pc' = "done"
            /\ result' = searchResult(patients)
    /\ UNCHANGED << query, rows, oldRowTexts, waitResult, polls, patients,
                    selectVars, welcomeVars, loginVars, detailVars,
                    restVars >>

\* await this.page.waitForTimeout(2000); attempt++; attempt < 5 ?
Sleep ==
    /\ pc = "sleeping"
    /\ attempt' = attempt + 1
    /\ events' = Append(events, "sleep")
    /\ IF attempt' < MaxAttempts
       THEN /\ pc' = "extracting"
            /\ result' = result
       ELSE /\ pc' = "done"
            /\ result' = searchResult(patients)
    /\ UNCHANGED << query, rows, oldRowTexts, waitResult, polls, patients,
                    selectVars, welcomeVars, loginVars, detailVars,
                    restVars >>

\* a Playwright primitive outside the caught wait rejects (locator not
\* resolved, page closed): the rejection propagates out of searchPatient
Throw ==
    /\ pc \in {"clear", "snapshot", "fill", "press", "extracting"}
    /\ pc' = "raised"
    /\ UNCHANGED << query, rows, oldRowTexts, waitResult, polls, attempt, patients,
                    result, events, selectVars, welcomeVars, loginVars, detailVars,
                    restVars >>

\* the caller has taken the result (or caught the error) and is done with
\* what it selected and read from the table
Finish ==
    /\ pc \in {"done", "raised"}
    /\ pc' = "idle"
    /\ clicked' = -1
    /\ selection' = NoSelection
    /\ info' = NoInfo
    /\ UNCHANGED << query, rows, oldRowTexts, waitResult, polls, attempt, patients,
                    result, events, welcomeVars, loginVars, detailVars,
                    restVars >>

\* the application re-renders the result table while searchPatient is suspended
Rerender(lists) ==
    /\ pc \notin {"idle", "done", "raised"}
    /\ \E rs \in lists : rs # rows /\ rows' = rs
    /\ UNCHANGED << pc, query, oldRowTexts, waitResult, polls, attempt, patients,
                    result, events, selectVars, welcomeVars, loginVars, detailVars,
                    restVars >>

\* row.locator('..., td:nth-child(n)').textContent() inside try / catch {}:
\* the text of the n-th cell, undefined when the row has no such cell
cellText(row, n) == IF n <= Len(row) THEN row[n] ELSE undefined

\* getPatientInfo(index), for a row the table holds
getPatientInfo(rs, index) ==
    [index |-> index,
     name |-> cellText(rs[index + 1], 1),
     id |-> cellText(rs[index + 1], 2),
     age |-> cellText(rs[index + 1], 3),
     gender |-> cellText(rs[index + 1], 4)]

\* the test reads a hit with getPatientInfo(index) once searchPatient has
\* returned
GetPatientInfo ==
    /\ pc = "done"
    /\ info = NoInfo
    /\ selection = NoSelection
    /\ \E index \in 0..(Len(rows) - 1) : info' = getPatientInfo(rows, index)
    /\ UNCHANGED << pc, query, rows, oldRowTexts, waitResult, polls, attempt,
                    patients, result, events, clicked, selection,
                    welcomeVars, loginVars,
                    detailVars, restVars >>

\* searchAndSelectPatient(query), from the return of its searchPatient on:
\* await this.selectPatient(0), selectedPatient: searchResult.patients[0]
SearchAndSelectPatient ==
    /\ pc = "done"
    /\ selection = NoSelection
    /\ IF result.hasResults /\ Len(result.patients) > 0
       THEN /\ clicked' = 0
            /\ selection' = [success |-> TRUE,
                             selectedPatient |-> << result.patients[1] >>,
                             message |-> "Selected patient"]
       ELSE /\ clicked' = clicked
            /\ selection' = [success |-> FALSE, selectedPatient |-> << >>,
                             message |-> "No patients found for query"]
    /\ UNCHANGED << pc, query, rows, oldRowTexts, waitResult, polls, attempt,
                    patients, result, events, info, welcomeVars, loginVars,
                    detailVars, restVars >>

\* selectPatientFromResults(searchResults, index) with the value searchPatient
\* returned: await this.selectPatient(index), selectedPatient:
\* searchResults.patients[index]
SelectPatientFromResults ==
    /\ pc = "done"
    /\ selection = NoSelection
    /\ \E index \in 0..(MaxRows - 1) :
          IF ~result.hasResults \/ index >= Len(result.patients)
          THEN /\ clicked' = clicked
               /\ selection' = [success |-> FALSE, selectedPatient |-> << >>,
                                message |-> "Patient at index not found"]
          ELSE /\ clicked' = index
               /\ selection' = [success |-> TRUE,
                                selectedPatient |-> << result.patients[index + 1] >>,
                                message |-> "Selected patient"]
    /\ UNCHANGED << pc, query, rows, oldRowTexts, waitResult, polls, attempt,
                    patients, result, events, info, welcomeVars, loginVars,
                    detailVars, restVars >>

DomChange == Rerender(RowLists)
LiveDomChange == Rerender(LiveRowLists)

searchPatient ==
    \/ Call
    \/ ClearInput
    \/ Settle
    \/ CaptureBaseline
    \/ FillQuery
    \/ PressEnter
    \/ Poll
    \/ Extract
    \/ Sleep
    \/ Throw
    \/ Finish

SearchInit(lists) ==
    /\ pc = "idle"
    /\ query = << >>
    /\ rows \in lists
    /\ oldRowTexts = << >>
    /\ waitResult = "None"
    /\ polls = 0
    /\ attempt = 0
    /\ patients = << >>
    /\ result = NoResult
    /\ events = << >>
    /\ clicked = -1
    /\ selection = NoSelection
    /\ info = NoInfo

(***************************************************************************)
(* HomePage.getWelcomeMessageParts                                         *)
(***************************************************************************)
MaxPartLen == 1   \* length of the generated U, Role and L texts

IsLineTerminator(c) == c \in {"\n", "\r"}

\* no character of t[from..to] is a line terminator ('.' matches it)
DotRun(t, from, to) == \A n \in from..to : ~IsLineTerminator(t[n])

LoggedInAs == <<"L", "o", "g", "g", "e", "d", " ", "i", "n", " ", "a", "s", " ">>
CloseAt == <<")", " ", "a", "t", " ">>

\* text.match(/Logged in as .*?\((.*?)\) at (.*)\.?$/): the leftmost match,
\* the lazy quantifiers taking the first '(' and the first ') at ' that let
\* the rest match, the greedy (.*) running to the end of the input (so that
\* \.? matches nothing); << >> when there is no match, else << [g1, g2] >>
regexMatch(t) ==
    LET n == Len(t)
        Ks(j) == {k \in (j + 1)..(n - 4) :
                     /\ SubSeq(t, k, k + 4) = CloseAt
                     /\ DotRun(t, j + 1, k - 1)
                     /\ DotRun(t, k + 5, n)}
        Js(i) == {j \in (i + 13)..n :
                     /\ t[j] = "("
                     /\ DotRun(t, i + 13, j - 1)
                     /\ Ks(j) # {}}
        Is == {i \in 1..(n - 12) :
                     /\ SubSeq(t, i, i + 12) = LoggedInAs
                     /\ Js(i) # {}}
        least(S) == CHOOSE x \in S : \A y \in S : x <= y
    IN  IF Is = {} THEN << >>
        ELSE LET i == least(Is)
                 j == least(Js(i))
                 k == least(Ks(j))
             IN  << [g1 |-> SubSeq(t, j + 1, k - 1), g2 |-> SubSeq(t, k + 5, n)] >>

\* mutant: the final period is kept
keepFinalPeriod(s) == s

\* s.replace(/\.$/, '')
dropFinalPeriod(s) ==
    IF Len(s) > 0 /\ s[Len(s)] = "." THEN SubSeq(s, 1, Len(s) - 1) ELSE s

Null == [isNull |-> TRUE, userInfo |-> << >>, ward |-> << >>]
NotCalled == [isNull |-> FALSE, userInfo |-> << >>, ward |-> << >>]
NoElement == [present |-> FALSE, text |-> << >>]

\* mutant: a text that does not match gives an object holding the text
partialOnNoMatch(el) ==
    IF ~el.present THEN Null
    ELSE LET text == trim(el.text)
             match == regexMatch(text)
         IN  IF text = << >> THEN Null
             ELSE IF match # << >>
             THEN [isNull |-> FALSE,
                   userInfo |-> match[1].g1,
                   ward |-> dropFinalPeriod(trim(match[1].g2))]
             ELSE [isNull |-> FALSE, userInfo |-> text, ward |-> << >>]

\* the value getWelcomeMessageParts returns for the h4 element el
getWelcomeMessageParts(el) ==
    IF ~el.present THEN Null              \* waitFor rejects: caught, null
    ELSE LET text == trim(el.text)
             match == regexMatch(text)
         IN  IF text = << >> THEN Null
             ELSE IF match # << >>
             THEN [isNull |-> FALSE,
                   userInfo |-> match[1].g1,
                   ward |-> dropFinalPeriod(trim(match[1].g2))]
             ELSE Null

\* the welcome line of the home page: "Logged in as U (Role) at L."
renderWelcome(w) ==
    LoggedInAs \o w.U \o <<" ", "(">> \o w.Role \o CloseAt \o w.L \o <<".">>

NoWelcome == [U |-> << >>, Role |-> << >>, L |-> << >>]

PartAlphabet == {"a", "(", " ", "."}

\* texts with the characters the pattern is sensitive to
EdgeParts ==
    { <<"a", "b">>, <<"a", "(", "b">>, <<"a", ".">>, <<" ", "a">>,
      <<"a", ")", " ", "a", "t", " ", "b">>, <<"a", "\n", "b">> }

Parts == (SeqsUpTo(PartAlphabet, MaxPartLen) \ { << >> }) \cup EdgeParts

\* h4 texts that are not a welcome line
OtherTexts ==
    { << >>, <<" ">>, <<"a">>, LoggedInAs \o <<"a">>,
      LoggedInAs \o <<"a", " ", "(", "b", ")", " ", "a", "t", " ", "c">>,
      LoggedInAs \o <<"a", " ", "(", ")", " ", "a", "t", " ", "c", ".">>,
      LoggedInAs \o <<"a", " ", "(", "b", ")", " ", "a", "t", " ", ".">>,
      LoggedInAs \o <<"a", " ", "(", "b", ")", " ", "a", "t">>,
      <<"a", " ", "(", "b", ")", " ", "a", "t", " ", "c", ".">> }

\* const dataLoginUser = await homePage.getWelcomeMessageParts()
GetWelcomeMessageParts ==
    /\ parts = NotCalled
    /\ loginPc = "home"
    /\ parts' = getWelcomeMessageParts(h4Text)
    /\ UNCHANGED << h4Text, welcome, searchVars, loginVars, detailVars, restVars >>

WelcomeInit ==
    /\ parts = NotCalled
    /\ \/ /\ welcome \in [U : Parts, Role : Parts, L : Parts]
          /\ h4Text = [present |-> TRUE, text |-> renderWelcome(welcome)]
       \/ /\ welcome = NoWelcome
          /\ \/ h4Text = NoElement
             \/ \E t \in OtherTexts : h4Text = [present |-> TRUE, text |-> t]

(***************************************************************************)
(* LoginPage                                                               *)
(***************************************************************************)
MaxOptions == 2   \* entries of the location control at most

random == <<"r", "a", "n", "d", "o", "m">>

commonLocations ==
    << <<"I", "n", "p", "a", "t", "i", "e", "n", "t", " ", "W", "a", "r", "d">>,
       <<"O", "u", "t", "p", "a", "t", "i", "e", "n", "t", " ", "C", "l", "i", "n", "i", "c">>,
       <<"L", "a", "b", "o", "r", "a", "t", "o", "r", "y">>,
       <<"P", "h", "a", "r", "m", "a", "c", "y">>,
       <<"R", "e", "g", "i", "s", "t", "r", "a", "t", "i", "o", "n", " ", "D", "e", "s", "k">>,
       <<"I", "s", "o", "l", "a", "t", "i", "o", "n", " ", "W", "a", "r", "d">> >>

\* labels the session location control may show
LabelUniverse == { <<"a">>, <<"a", "b">>, <<"B">>, << >> }

OptionLists == DistinctSeqsUpTo(LabelUniverse, MaxOptions)

\* options.filter(option => option.trim() !== '')
nonEmpty(opts) == SelectSeq(opts, LAMBDA o : trim(o) # << >>)

\* getLocationOptionsFromDropdown: << >> stands for the rejection of waitFor
\* when the select has no option; otherwise << the list >>
getLocationOptionsFromDropdown(opts) ==
    IF opts = << >> THEN << >> ELSE << nonEmpty(opts) >>

\* getLocationOptionsFromButtons: the texts of the items, or, when no item
\* shows up within 5 s, the common locations visible on the page, or all six
getLocationOptionsFromButtons(opts) ==
    IF opts # << >> THEN nonEmpty(opts)
    ELSE LET availableLocations ==
                 SelectSeq(commonLocations,
                           LAMBDA loc : \E i \in 1..Len(opts) : trim(opts[i]) = loc)
         IN  IF Len(availableLocations) > 0 THEN availableLocations
             ELSE commonLocations

\* options[Math.floor(Math.random() * options.length)]: the labels the
\* random pick may yield (undefined when the list is empty)
randomPick(opts) ==
    IF opts = << >> THEN {undefined} ELSE {opts[i] : i \in 1..Len(opts)}

\* locationDropdown.selectOption({ label }): the option with that label, or
\* << >> when no option has it (the call rejects).  With the label undefined
\* the object names no criterion: the call selects the first option, or is
\* rejected, depending on how the engine treats the empty criterion
selectOption(opts, label) ==
    IF label = undefined
    THEN { << >> } \cup (IF opts = << >> THEN {} ELSE { << opts[1] >> })
    ELSE IF \E i \in 1..Len(opts) : opts[i] = label THEN { << label >> }
    ELSE { << >> }

\* selectLocationButton: text="loc" .or [data-location] .or button:has-text
\* .or li:has-text, then .first(): the first item in document order that one
\* of the locators matches (has-text: case-insensitive containment);
\* << >> when waitFor rejects because there is none
selectLocationButton(opts, loc) ==
    LET hits == {i \in 1..Len(opts) :
                    \/ trim(opts[i]) = loc
                    \/ includes(toLowerCase(opts[i]), toLowerCase(loc))}
    IN  IF hits = {} THEN << >>
        ELSE << opts[CHOOSE i \in hits : \A j \in hits : i <= j] >>

NoLabel == <<"?">>

\* selectLocation(location): the ways it can run, each with the label handed
\* to selectOption / selectLocationButton (NoLabel when none is reached)
\* and the outcome, << label >> for the label the page ends up with, << >>
\* for a rejection
selectLocationRuns(sh, opts, loc) ==
    IF sh = "none"                     \* locationDropdown.evaluate rejects
    THEN { [handed |-> NoLabel, out |-> << >>] }
    ELSE IF sh = "SELECT"
    THEN IF loc = random
         THEN LET got == getLocationOptionsFromDropdown(opts)
              IN  IF got = << >> THEN { [handed |-> NoLabel, out |-> << >>] }
                  ELSE UNION { { [handed |-> l, out |-> o] :
                                     o \in selectOption(opts, l) } :
                               l \in randomPick(got[1]) }
         ELSE { [handed |-> loc, out |-> o] : o \in selectOption(opts, loc) }
    ELSE IF loc = random
         THEN { [handed |-> l, out |-> selectLocationButton(opts, l)] :
                    l \in randomPick(getLocationOptionsFromButtons(opts)) }
         ELSE { [handed |-> loc, out |-> selectLocationButton(opts, loc)] }

\* the outcomes of selectLocation(location)
selectLocation(sh, opts, loc) ==
    { run.out : run \in selectLocationRuns(sh, opts, loc) }

NotListed == << NoLabel >>

\* the value getLocationOptions returns: the enumeration of the select, and
\* that of the items when the control is no select, when the shape probe
\* rejects or when the enumeration of the select rejects (a login page
\* with a select has no items)
getLocationOptions(sh, opts) ==
    IF sh = "SELECT"
    THEN LET got == getLocationOptionsFromDropdown(opts)
         IN  IF got = << >> THEN getLocationOptionsFromButtons(<< >>)
             ELSE got[1]
    ELSE getLocationOptionsFromButtons(opts)
Usernames == { <<"a">>, <<"x">> }
Passwords == { "Admin123", "wrong" }
Locations == (LabelUniverse \ { << >> }) \cup { random }

\* the application: the account the credentials belong to, if any
validCredentials(u, p) == u = <<"a">> /\ p = "Admin123"
displayName(u) == <<"S", " ", "U">>

\* login(username, password, location) is called: await this.fillUsername(username)
FillUsername ==
    /\ loginPc = "start"
    /\ loginPc' = "password"
    /\ loginEvents' = Append(loginEvents, "username")
    /\ UNCHANGED << shape, options, username, password, location, selected,
                    listed, handed, searchVars, welcomeVars, detailVars, restVars >>

\* await this.fillPassword(password)
FillPassword ==
    /\ loginPc = "password"
    /\ loginPc' = "location"
    /\ loginEvents' = Append(loginEvents, "password")
    /\ UNCHANGED << shape, options, username, password, location, selected,
                    listed, handed, searchVars, welcomeVars, detailVars, restVars >>

\* const options = await loginPage.getLocationOptions()
GetLocationOptions ==
    /\ loginPc = "start"
    /\ listed = NotListed
    /\ listed' = getLocationOptions(shape, options)
    /\ UNCHANGED << loginPc, shape, options, username, password, location,
                    selected, loginEvents, handed, searchVars, welcomeVars, detailVars, restVars >>

\* mutant: a rejection of selectLocation is swallowed
SelectLocationSwallows ==
    /\ loginPc = "location"
    /\ \E run \in selectLocationRuns(shape, options, location) :
          /\ handed' = run.handed
          /\ IF run.out = << >>
             THEN /\ loginPc' = "click"
                  /\ UNCHANGED << selected, loginEvents >>
             ELSE /\ loginPc' = "click"
                  /\ selected' = run.out[1]
                  /\ loginEvents' = Append(loginEvents, "location")
    /\ UNCHANGED << shape, options, username, password, location,
                    listed, searchVars, welcomeVars, detailVars, restVars >>

\* await this.selectLocation(location)
SelectLocation ==
    /\ loginPc = "location"
    /\ \E run \in selectLocationRuns(shape, options, location) :
          /\ handed' = run.handed
          /\ IF run.out = << >>
             THEN /\ loginPc' = "raised"
                  /\ UNCHANGED << selected, loginEvents >>
             ELSE /\ loginPc' = "click"
                  /\ selected' = run.out[1]
                  /\ loginEvents' = Append(loginEvents, "location")
    /\ UNCHANGED << shape, options, username, password, location,
                    listed, searchVars, welcomeVars, detailVars, restVars >>

\* await this.clickLogin(): the application opens the home page with the
\* welcome line of the session, or stays on the login page
ClickLogin ==
    /\ loginPc = "click"
    /\ loginEvents' = Append(loginEvents, "click")
    /\ IF validCredentials(username, password)
       THEN /\ loginPc' = "home"
            /\ welcome' = [U |-> displayName(username), Role |-> username,
                           L |-> trim(selected)]
            /\ h4Text' = [present |-> TRUE, text |-> renderWelcome(welcome')]
       ELSE /\ loginPc' = "loginError"
            /\ UNCHANGED << welcome, h4Text >>
    /\ UNCHANGED << shape, options, username, password, location, selected,
                    listed, handed, parts, searchVars, detailVars, restVars >>

LoginInit ==
    /\ listed = NotListed
    /\ handed = NoLabel
    /\ loginPc = "start"
    /\ shape \in {"SELECT", "UL", "none"}
    /\ options \in OptionLists
    /\ username \in Usernames
    /\ password \in Passwords
    /\ location \in Locations
    /\ selected = NoLabel
    /\ loginEvents = << >>

(***************************************************************************)
(* PatientDetailPage.getPatientGender / getPatientAge / getPatientBirthdate *)
(*                                                                         *)
(* An element of the page is its text, whether it is an                    *)
(* <input type=button|submit> (a text locator matches such an input by its *)
(* value, and its textContent is empty), whether its class and its         *)
(* data-testid contain "birthdate", and whether it lies in .demographics.  *)
(***************************************************************************)
MaxElements == 2  \* elements of the page the locators can match

Digits == {"0", "1", "2", "3", "4", "5", "6", "7", "8", "9"}
LowerLetters ==
    {"a", "b", "c", "d", "e", "f", "g", "h", "i", "j", "k", "l", "m", "n",
      "o", "p", "q", "r", "s", "t", "u", "v", "w", "x", "y", "z"}
UpperLetters ==
    {"A", "B", "C", "D", "E", "F", "G", "H", "I", "J", "K", "L", "M", "N",
      "O", "P", "Q", "R", "S", "T", "U", "V", "W", "X", "Y", "Z"}

\* \d
IsDigit(c) == c \in Digits

\* \w
IsWord(c) == c \in Digits \cup LowerLetters \cup UpperLetters \cup {"_"}

\* s.replace(/\s+/g, ' ')
RECURSIVE collapseFrom(_, _)
collapseFrom(s, i) ==
    IF i > Len(s) THEN << >>
    ELSE IF IsSpace(s[i])
         THEN IF i > 1 /\ IsSpace(s[i - 1]) THEN collapseFrom(s, i + 1)
              ELSE <<" ">> \o collapseFrom(s, i + 1)
         ELSE << s[i] >> \o collapseFrom(s, i + 1)

collapseSpace(s) == collapseFrom(s, 1)

\* s.replace(/[()]/g, '')
removeParens(s) == SelectSeq(s, LAMBDA c : c \notin {"(", ")"})

YearS == <<" ", "y", "e", "a", "r", "(", "s", ")">>

\* /\d+ year\(s\)/ has a match in t
matchesAge(t) ==
    \E p \in 1..Len(t) :
        /\ IsDigit(t[p])
        /\ p + Len(YearS) <= Len(t)
        /\ SubSeq(t, p + 1, p + Len(YearS)) = YearS

\* the length of the match of \d{1,2}\.\w{3}\.\d{4} that starts at p, 0 when
\* there is none (two digits are tried before one)
dateLength(t, p) ==
    LET dateWith(d) ==
            /\ p >= 1
            /\ p + d + 8 <= Len(t)
            /\ \A n \in p..(p + d - 1) : IsDigit(t[n])
            /\ t[p + d] = "."
            /\ \A n \in (p + d + 1)..(p + d + 3) : IsWord(t[n])
            /\ t[p + d + 4] = "."
            /\ \A n \in (p + d + 5)..(p + d + 8) : IsDigit(t[n])
    IN  IF dateWith(2) THEN 11 ELSE IF dateWith(1) THEN 10 ELSE 0

\* /\d{1,2}\.\w{3}\.\d{4}/ has a match in t
matchesDate(t) == \E p \in 1..Len(t) : dateLength(t, p) > 0

Male == <<"M", "a", "l", "e">>
Female == <<"F", "e", "m", "a", "l", "e">>

\* /Male|Female/ has a match in t
matchesGender(t) == includes(t, Male) \/ includes(t, Female)

\* the first index at or after p that holds no white space
skipSpace(t, p) ==
    LET rest == {n \in p..Len(t) : ~IsSpace(t[n])}
    IN  IF rest = {} THEN Len(t) + 1
        ELSE CHOOSE n \in rest : \A m \in rest : n <= m

\* ageText.match(/\(\s*(\d{1,2}\.\w{3}\.\d{4})\s*\)/): << >> when there is
\* no match, else << the capture of the leftmost match >>
birthdateMatch(t) ==
    LET start(i) == skipSpace(t, i + 1)
        close(i) == skipSpace(t, start(i) + dateLength(t, start(i)))
        Is == {i \in 1..Len(t) :
                  /\ t[i] = "("
                  /\ dateLength(t, start(i)) > 0
                  /\ close(i) <= Len(t)
                  /\ t[close(i)] = ")"}
    IN  IF Is = {} THEN << >>
        ELSE LET i == CHOOSE x \in Is : \A y \in Is : x <= y
             IN  << SubSeq(t, start(i), start(i) + dateLength(t, start(i)) - 1) >>

\* the selectors of the fallback loop of getPatientBirthdate, in list order
selectors == << "text=/date/", "[class*=birthdate]", "[data-testid*=birthdate]" >>

\* the element e is matched by the locator sel
matches(e, sel) ==
    CASE sel = "text=/age/" -> matchesAge(e.text)
      [] sel = "text=/date/" -> matchesDate(e.text)
      [] sel = "text=/gender/" -> matchesGender(e.text)
      [] sel = ".demographics text=/gender/" -> e.demo /\ matchesGender(e.text)
      [] sel = "[class*=birthdate]" -> e.cls
      [] sel = "[data-testid*=birthdate]" -> e.testid

\* page.locator(sel).first(): the index of the element, 0 when none matches
first(els, sel) ==
    LET S == {i \in 1..Len(els) : matches(els[i], sel)}
    IN  IF S = {} THEN 0 ELSE CHOOSE i \in S : \A j \in S : i <= j

\* element.textContent(): an input has no text content
elementText(e) == IF e.input THEN << >> ELSE e.text

NotRead == <<"?", "?">>

\* mutant: only the match of the age pattern is returned
getPatientAgeMatchOnly(els) ==
    LET i == first(els, "text=/age/")
    IN  IF i = 0 THEN << >>
        ELSE LET ageText == elementText(els[i])
                 ends == {p \in 1..Len(ageText) :
                             /\ IsDigit(ageText[p])
                             /\ p + Len(YearS) <= Len(ageText)
                             /\ SubSeq(ageText, p + 1, p + Len(YearS)) = YearS}
                 p == CHOOSE x \in ends : \A y \in ends : x <= y
                 starts == {q \in 1..p : \A n \in q..p : IsDigit(ageText[n])}
                 q == CHOOSE x \in starts : \A y \in starts : x <= y
             IN  IF ageText # << >> THEN SubSeq(ageText, q, p + Len(YearS))
                 ELSE << >>

\* the value getPatientAge returns on the page els
getPatientAge(els) ==
    LET i == first(els, "text=/age/")
    IN  IF i = 0 THEN << >>                 \* textContent rejects: caught
        ELSE LET ageText == elementText(els[i])
             IN  IF ageText # << >> THEN trim(collapseSpace(ageText))
                 ELSE << >>

\* const age = await this.getPatientAge()
GetPatientAge ==
    /\ agePc = "call"
    /\ patientAge' = getPatientAge(elements)
    /\ agePc' = "done"
    /\ UNCHANGED << elements, genderPc, genderProbes, patientGender, birthdatePc,
                    selectorIndex, birthdateProbes, patientBirthdate,
                    searchVars, welcomeVars, loginVars,
                    restVars >>

\* getPatientGender up to the end of its first try block
GenderScoped ==
    /\ genderPc = "call"
    /\ genderProbes' = Append(genderProbes, ".demographics text=/gender/")
    /\ LET i == first(elements, ".demographics text=/gender/")
       IN  IF i = 0
           THEN /\ genderPc' = "catch"      \* textContent rejects
                /\ UNCHANGED patientGender
           ELSE /\ genderPc' = "done"
                /\ patientGender' = trim(elementText(elements[i]))
    /\ UNCHANGED << elements, agePc, patientAge, birthdatePc, selectorIndex,
                    birthdateProbes, patientBirthdate,
                    searchVars, welcomeVars, loginVars,
                    restVars >>

\* getPatientGender in the catch block of its first try
GenderPageWide ==
    /\ genderPc = "catch"
    /\ genderProbes' = Append(genderProbes, "text=/gender/")
    /\ LET i == first(elements, "text=/gender/")
       IN  patientGender' = IF i = 0 THEN << >> \* textContent rejects: caught
                     ELSE trim(elementText(elements[i]))
    /\ genderPc' = "done"
    /\ UNCHANGED << elements, agePc, patientAge, birthdatePc, selectorIndex,
                    birthdateProbes, patientBirthdate,
                    searchVars, welcomeVars, loginVars,
                    restVars >>

\* mutant: without a parenthesised date in the age text the result is ''
BirthdateOnlyFromAge ==
    /\ birthdatePc = "call"
    /\ birthdateProbes' = Append(birthdateProbes, "text=/age/")
    /\ LET ageText == getPatientAge(elements)
           birthdateMatch_ == birthdateMatch(ageText)
       IN  patientBirthdate' = IF ageText # << >> /\ birthdateMatch_ # << >>
                        THEN trim(collapseSpace(birthdateMatch_[1]))
                        ELSE << >>
    /\ birthdatePc' = "done"
    /\ UNCHANGED << elements, genderPc, genderProbes, patientGender, agePc,
                    patientAge, selectorIndex, searchVars, welcomeVars, loginVars,
                    restVars >>

\* mutant: an age text the pattern does not match is returned
BirthdateReturnsAgeText ==
    /\ birthdatePc = "call"
    /\ birthdateProbes' = Append(birthdateProbes, "text=/age/")
    /\ LET ageText == getPatientAge(elements)
           birthdateMatch_ == birthdateMatch(ageText)
       IN  IF ageText # << >>
           THEN /\ patientBirthdate' = IF birthdateMatch_ # << >>
                                THEN trim(collapseSpace(birthdateMatch_[1]))
                                ELSE ageText
                /\ birthdatePc' = "done"
                /\ UNCHANGED selectorIndex
           ELSE /\ birthdatePc' = "loop"
                /\ selectorIndex' = 1
                /\ UNCHANGED patientBirthdate
    /\ UNCHANGED << elements, genderPc, genderProbes, patientGender, agePc,
                    patientAge, searchVars, welcomeVars, loginVars,
                    restVars >>

\* getPatientBirthdate up to the first selector of its loop
BirthdateFromAge ==
    /\ birthdatePc = "call"
    /\ birthdateProbes' = Append(birthdateProbes, "text=/age/")
    /\ LET ageText == getPatientAge(elements)
           birthdateMatch_ == birthdateMatch(ageText)
       IN  IF ageText # << >> /\ birthdateMatch_ # << >>
           THEN /\ patientBirthdate' = trim(collapseSpace(birthdateMatch_[1]))
                /\ birthdatePc' = "done"
                /\ UNCHANGED selectorIndex
           ELSE /\ birthdatePc' = "loop"
                /\ selectorIndex' = 1
                /\ UNCHANGED patientBirthdate
    /\ UNCHANGED << elements, genderPc, genderProbes, patientGender, agePc,
                    patientAge, searchVars, welcomeVars, loginVars,
                    restVars >>

\* mutant: the loop goes on after a selector has given a text
BirthdateLastSelectorWins ==
    /\ birthdatePc = "loop"
    /\ birthdateProbes' = Append(birthdateProbes, selectors[selectorIndex])
    /\ LET i == first(elements, selectors[selectorIndex])
           birthdateText == IF i = 0 THEN << >> ELSE elementText(elements[i])
           cleanedText == trim(collapseSpace(removeParens(birthdateText)))
       IN  /\ patientBirthdate' = IF trim(birthdateText) # << >> THEN cleanedText
                           ELSE IF selectorIndex = Len(selectors)
                                   /\ patientBirthdate = NotRead
                                THEN << >> ELSE patientBirthdate
           /\ IF selectorIndex < Len(selectors)
              THEN birthdatePc' = "loop" /\ selectorIndex' = selectorIndex + 1
              ELSE birthdatePc' = "done" /\ UNCHANGED selectorIndex
    /\ UNCHANGED << elements, genderPc, genderProbes, patientGender, agePc,
                    patientAge, searchVars, welcomeVars, loginVars,
                    restVars >>

\* one iteration of the loop over 'selectors', and the return after the loop
BirthdateSelector ==
    /\ birthdatePc = "loop"
    /\ birthdateProbes' = Append(birthdateProbes, selectors[selectorIndex])
    /\ LET i == first(elements, selectors[selectorIndex])
           \* i = 0: textContent rejects after 2000 ms, caught
           birthdateText == IF i = 0 THEN << >> ELSE elementText(elements[i])
           cleanedText == trim(collapseSpace(removeParens(birthdateText)))
       IN  IF trim(birthdateText) # << >>
           THEN /\ patientBirthdate' = cleanedText
                /\ birthdatePc' = "done"
                /\ UNCHANGED selectorIndex
           ELSE IF selectorIndex < Len(selectors)
           THEN /\ selectorIndex' = selectorIndex + 1
                /\ UNCHANGED << patientBirthdate, birthdatePc >>
           ELSE /\ patientBirthdate' = << >>
                /\ birthdatePc' = "done"
                /\ UNCHANGED selectorIndex
    /\ UNCHANGED << elements, genderPc, genderProbes, patientGender, agePc,
                    patientAge, searchVars, welcomeVars, loginVars,
                    restVars >>

\* an element of the page
Element(t, in, c, d, dm) ==
    [text |-> t, input |-> in, cls |-> c, testid |-> d, demo |-> dm]

AgeAndBirthdate == 
    <<"4", "9", " ", "y", "e", "a", "r", "(", "s", ")", " ", "(", " ",
      "2", "2", ".", "M", "a", "r", ".", "1", "9", "7", "6", ")">>
AgeAlone == <<"4", "9", " ", "y", "e", "a", "r", "(", "s", ")">>
AgeThenDate == 
    <<"4", "9", " ", "y", "e", "a", "r", "(", "s", ")", " ",
      "2", "2", ".", "M", "a", "r", ".", "1", "9", "7", "6">>
AgeOnTwoLines == 
    <<"4", "9", " ", "y", "e", "a", "r", "(", "s", ")", "\n",
      " ", " ", "(", "2", "2", ".", "M", "a", "r", ".", "1", "9", "7", "6", " ", ")">>
Date22 == <<"2", "2", ".", "M", "a", "r", ".", "1", "9", "7", "6">>
Date1 == <<"(", "1", ".", "J", "a", "n", ".", "2", "0", "0", "0", ")">>
Date2 == <<"2", ".", "F", "e", "b", ".", "2", "0", "0", "1">>
Date3 == <<"3", ".", "M", "a", "r", ".", "2", "0", "0", "2">>

\* the elements the locators of the three readers can match
ElementUniverse ==
    { Element(AgeAndBirthdate, FALSE, FALSE, FALSE, TRUE),
      Element(AgeAlone, FALSE, FALSE, FALSE, TRUE),
      Element(AgeThenDate, FALSE, FALSE, FALSE, TRUE),
      Element(AgeOnTwoLines, FALSE, FALSE, FALSE, TRUE),
      Element(Date22, FALSE, FALSE, FALSE, FALSE),
      Element(Date1, FALSE, FALSE, FALSE, FALSE),
      Element(Date22, TRUE, FALSE, FALSE, FALSE),
      Element(Date2, FALSE, TRUE, FALSE, FALSE),
      Element(<<" ">>, FALSE, TRUE, FALSE, FALSE),
      Element(<<"(", ")">>, FALSE, TRUE, FALSE, FALSE),
      Element(Date3, FALSE, FALSE, TRUE, FALSE),
      Element(Male, FALSE, FALSE, FALSE, TRUE),
      Element(Male, FALSE, FALSE, FALSE, FALSE),
      Element(<<" ">> \o Female \o <<"\n">>, FALSE, FALSE, FALSE, FALSE),
      Element(Male, TRUE, FALSE, FALSE, TRUE) }

Pages == DistinctSeqsUpTo(ElementUniverse, MaxElements)

DetailInit ==
    /\ elements \in Pages
    /\ genderPc = "call"
    /\ genderProbes = << >>
    /\ patientGender = NotRead
    /\ agePc = "call"
    /\ patientAge = NotRead
    /\ birthdatePc = "call"
    /\ selectorIndex = 0
    /\ birthdateProbes = << >>
    /\ patientBirthdate = NotRead


(***************************************************************************)
(* PatientDetailPage.getComprehensivePatientData                           *)
(***************************************************************************)
MaxPrimitives == 2   \* page primitives one operation awaits at most

\* the operations of the array handed to Promise.all, in its order
Operations ==
    { "getPatientInfo", "getPatientContact", "getPatientRelatives",
      "getPatientDiagnoses", "getPatientVisits", "getPatientObservations",
      "getPatientVitals" }

\* getComprehensivePatientData() is called: the array literal is evaluated in
\* one synchronous turn, and every call in it runs up to its first await, so
\* when the turn ends each operation has issued its first page primitive.
\* How many primitives an operation awaits depends on the page.
GetComprehensivePatientData ==
    /\ comprehensivePc = "idle"
    /\ inFlight' \in [Operations -> 1..MaxPrimitives]
    /\ comprehensivePc' = "gathering"
    /\ UNCHANGED << searchVars, welcomeVars, loginVars, detailVars,
                    sectionVars, apiVars, seederVars >>

\* the primitive operation o is suspended at settles; o runs on to its next
\* await (issuing its next primitive) or returns
PrimitiveSettles(o) ==
    /\ comprehensivePc = "gathering"
    /\ inFlight[o] > 0
    /\ inFlight' = [inFlight EXCEPT ![o] = @ - 1]
    /\ UNCHANGED << comprehensivePc, searchVars, welcomeVars, loginVars,
                    detailVars, sectionVars, apiVars, seederVars >>

\* every operation has returned: Promise.all resolves
Gathered ==
    /\ comprehensivePc = "gathering"
    /\ \A o \in Operations : inFlight[o] = 0
    /\ comprehensivePc' = "done"
    /\ UNCHANGED << inFlight, searchVars, welcomeVars, loginVars, detailVars,
                    sectionVars, apiVars, seederVars >>

\* the caller has taken the comprehensive data
ComprehensiveReturn ==
    /\ comprehensivePc = "done"
    /\ comprehensivePc' = "idle"
    /\ UNCHANGED << inFlight, searchVars, welcomeVars, loginVars, detailVars,
                    sectionVars, apiVars, seederVars >>

ComprehensiveInit ==
    /\ comprehensivePc = "idle"
    /\ inFlight = [o \in Operations |-> 0]

(***************************************************************************)
(* PatientDetailPage.getPatientDiagnoses / getPatientVisits /              *)
(* getPatientObservations.  The section is an h3 followed by its entries;  *)
(* sectionLists holds, per selector of the reader, the texts of the        *)
(* elements that selector matches.  The texts hold no line terminator.     *)
(***************************************************************************)
MaxItems == 1      \* elements one selector of a section matches at most
MaxRerenders == 1  \* re-renders of the section during one call

none == <<"n", "o", "n", "e">>
Unknown == <<"U", "n", "k", "n", "o", "w", "n">>

\* the three selectors of a reader, in the order of its list
sectionSelectors == << "~ ul li, ~ ol li", "~ div .item", "+ * tr, ~ table tr" >>

SectionNames == { "diagnoses", "visits", "observations" }

\* the h3 the section locator matches
heading(name) ==
    CASE name = "diagnoses" -> <<"D", "I", "A", "G", "N", "O", "S", "E", "S">>
      [] name = "visits" -> <<"R", "E", "C", "E", "N", "T", " ", "V", "I", "S", "I", "T", "S">>
      [] name = "observations" -> <<"L", "A", "T", "E", "S", "T", " ", "O", "B", "S", "E", "R", "V", "A", "T", "I", "O", "N", "S">>

ItemTexts == { <<"W", ":", "7", "k", " ">>, <<"N", "o", "n", "e">>, << >> }

SectionPages == [1..Len(sectionSelectors) -> SeqsUpTo(ItemTexts, MaxItems)]

\* sectionElement.locator('..').textContent(): the text of the parent of the
\* h3, which holds the h3 and every entry of the section
sectionContent(name, lists) ==
    heading(name) \o Concat([k \in 1..Len(lists) |-> Concat(lists[k])])

\* hasSectionWithContent(name); FALSE also when waitFor rejects
hasSectionWithContent(name, present, lists) ==
    /\ present
    /\ sectionContent(name, lists) # << >>
    /\ ~includes(toLowerCase(sectionContent(name, lists)), none)
    /\ trim(sectionContent(name, lists)) # << >>

\* text.match(/([^:]+):\s*(.+)/) on a text without line terminator: << >>
\* when it does not match, else << name, valueWithUnit >>
observationMatch(text) ==
    LET colonAfter(i) ==
            {c \in (i + 1)..Len(text) :
                text[c] = ":" /\ \A k \in i..(c - 1) : text[k] # ":"}
        starts == {i \in 1..Len(text) :
                      /\ text[i] # ":"
                      /\ \E c \in colonAfter(i) : c < Len(text)}
    IN  IF starts = {} THEN << >>
        ELSE LET i == CHOOSE x \in starts : \A y \in starts : x <= y
                 c == CHOOSE x \in colonAfter(i) : TRUE
                 rest == SubSeq(text, c + 1, Len(text))
                 solid == {k \in 1..Len(rest) : ~IsSpace(rest[k])}
                 from == IF solid = {} THEN Len(rest)
                         ELSE CHOOSE k \in solid : \A j \in solid : k <= j
             IN  << SubSeq(text, i, c - 1), SubSeq(rest, from, Len(rest)) >>

\* the character classes of /([\d.,]+)\s*([^\d\s]*)/
InClass(c, class) ==
    CASE class = "[\\d.,]" -> IsDigit(c) \/ c \in {".", ","}
      [] class = "\\s" -> IsSpace(c)
      [] class = "[^\\d\\s]" -> ~IsDigit(c) /\ ~IsSpace(c)

\* the end of the longest run of characters of the class that starts at p
runEnd(t, p, class) ==
    LET stops == {k \in p..Len(t) : ~InClass(t[k], class)}
    IN  IF stops = {} THEN Len(t)
        ELSE (CHOOSE k \in stops : \A j \in stops : k <= j) - 1

\* valueWithUnit.match(/([\d.,]+)\s*([^\d\s]*)/): << >> when it does not
\* match, else << value, unit >>
valueMatch(v) ==
    LET numeric == {k \in 1..Len(v) : InClass(v[k], "[\\d.,]")}
    IN  IF numeric = {} THEN << >>
        ELSE LET lo == CHOOSE k \in numeric : \A j \in numeric : k <= j
                 hi == runEnd(v, lo, "[\\d.,]")
                 u == runEnd(v, hi + 1, "\\s") + 1
             IN  << SubSeq(v, lo, hi), SubSeq(v, u, runEnd(v, u, "[^\\d\\s]")) >>

\* the entry a reader pushes for an element of text t
entry(name, t) ==
    CASE name = "diagnoses" -> [condition |-> trim(t), status |-> "Active"]
      [] name = "visits" -> [date |-> trim(t)]
      [] name = "observations" ->
            LET m == observationMatch(t)
            IN  IF m = << >>
                THEN [name |-> Unknown, value |-> trim(t), unit |-> undefined]
                ELSE LET vm == valueMatch(m[2])
                     IN  [name |-> trim(m[1]),
                          value |-> IF vm = << >> THEN trim(m[2]) ELSE vm[1],
                          unit |-> IF vm = << >> \/ trim(vm[2]) = << >>
                                   THEN undefined ELSE trim(vm[2])]

\* if (text && !text.toLowerCase().includes('none')) push(...)
pushed(name, t) ==
    IF t # << >> /\ ~includes(toLowerCase(t), none)
    THEN << entry(name, t) >> ELSE << >>

\* the value of entries before a reader is called
NotReturned == << "?", "?", "?" >>

\* an awaited page primitive, as recorded in sectionProbes
Primitive(kind, count, text) ==
    [kind |-> kind, selector |-> sectionSelector, count |-> count, text |-> text]

\* the position in sectionProbes of the count() of the current selector
lastCount ==
    CHOOSE k \in 1..Len(sectionProbes) :
        /\ sectionProbes[k].kind = "count"
        /\ \A j \in (k + 1)..Len(sectionProbes) : sectionProbes[j].kind # "count"

\* getPatientDiagnoses() / getPatientVisits() / getPatientObservations() is
\* called: await this.hasSectionWithContent(name)
GetPatientSection ==
    /\ sectionPc = "idle"
    /\ \E name \in SectionNames : sectionName' = name
    /\ sectionPc' = "gate"
    /\ sectionSelector' = 0
    /\ sectionProbes' = << >>
    /\ sectionRerenders' = 0
    /\ entries' = NotReturned
    /\ UNCHANGED << sectionPresent, sectionLists, searchVars, welcomeVars, loginVars, detailVars,
                    comprehensiveVars, apiVars, seederVars >>

\* hasSectionWithContent returns; without content the reader returns its
\* empty list, else it enters the loop over its selectors
HasSectionWithContent ==
    /\ sectionPc = "gate"
    /\ entries' = << >>
    /\ IF hasSectionWithContent(sectionName, sectionPresent, sectionLists)
       THEN sectionPc' = "count" /\ sectionSelector' = 1
       ELSE sectionPc' = "done" /\ sectionSelector' = sectionSelector
    /\ UNCHANGED << sectionName, sectionPresent, sectionLists, sectionProbes,
                    sectionRerenders, searchVars, welcomeVars, loginVars, detailVars,
                    comprehensiveVars, apiVars, seederVars >>

\* const count = await elements.count(); if (count > 0) ...
CountElements ==
    /\ sectionPc = "count"
    /\ LET count == Len(sectionLists[sectionSelector])
       IN  /\ sectionProbes' = Append(sectionProbes, Primitive("count", count, << >>))
           /\ IF count > 0
              THEN sectionPc' = "read" /\ sectionSelector' = sectionSelector
              ELSE IF sectionSelector < Len(sectionSelectors)
              THEN sectionPc' = "count" /\ sectionSelector' = sectionSelector + 1
              ELSE sectionPc' = "done" /\ sectionSelector' = sectionSelector
    /\ UNCHANGED << sectionName, sectionPresent, sectionLists, sectionRerenders,
                    entries, searchVars, welcomeVars, loginVars, detailVars,
                    comprehensiveVars, apiVars, seederVars >>

\* mutant: a selector whose elements were all filtered out does not end the
\* loop over the selectors
ReadElementFallsThrough ==
    /\ sectionPc = "read"
    /\ LET count == sectionProbes[lastCount].count
           i == Len(sectionProbes) - lastCount
       IN  /\ i < Len(sectionLists[sectionSelector])
           /\ LET text == sectionLists[sectionSelector][i + 1]
              IN  /\ sectionProbes' = Append(sectionProbes, Primitive("read", i, text))
                  /\ entries' = entries \o pushed(sectionName, text)
                  /\ IF i + 1 < count
                     THEN sectionPc' = "read" /\ sectionSelector' = sectionSelector
                     ELSE IF entries' = << >> /\ sectionSelector < Len(sectionSelectors)
                     THEN sectionPc' = "count" /\ sectionSelector' = sectionSelector + 1
                     ELSE sectionPc' = "done" /\ sectionSelector' = sectionSelector
    /\ UNCHANGED << sectionName, sectionPresent, sectionLists, sectionRerenders,
                    searchVars, welcomeVars, loginVars, detailVars,
                    comprehensiveVars, apiVars, seederVars >>

\* const text = await elements.nth(i).textContent(); after the last of the
\* count elements: break, and the list is returned
ReadElement ==
    /\ sectionPc = "read"
    /\ LET count == sectionProbes[lastCount].count
           i == Len(sectionProbes) - lastCount
       IN  /\ i < Len(sectionLists[sectionSelector])
           /\ LET text == sectionLists[sectionSelector][i + 1]
              IN  /\ sectionProbes' = Append(sectionProbes, Primitive("read", i, text))
                  /\ entries' = entries \o pushed(sectionName, text)
                  /\ sectionPc' = IF i + 1 < count THEN "read" ELSE "done"
    /\ UNCHANGED << sectionName, sectionPresent, sectionLists, sectionSelector,
                    sectionRerenders, searchVars, welcomeVars, loginVars, detailVars,
                    comprehensiveVars, apiVars, seederVars >>

\* the awaited primitive rejects (the element is gone and textContent times
\* out, the page is closed): catch (error) { return [] }
SectionReject ==
    /\ sectionPc \in {"count", "read"}
    /\ sectionProbes' = Append(sectionProbes, Primitive("reject", 0, << >>))
    /\ entries' = << >>
    /\ sectionPc' = "done"
    /\ UNCHANGED << sectionName, sectionPresent, sectionLists, sectionSelector,
                    sectionRerenders, searchVars, welcomeVars, loginVars, detailVars,
                    comprehensiveVars, apiVars, seederVars >>

\* the caller has taken the list
SectionReturn ==
    /\ sectionPc = "done"
    /\ sectionPc' = "idle"
    /\ sectionName' = "none"
    /\ sectionSelector' = 0
    /\ sectionProbes' = << >>
    /\ sectionRerenders' = 0
    /\ entries' = NotReturned
    /\ UNCHANGED << sectionPresent, sectionLists, searchVars, welcomeVars, loginVars, detailVars,
                    comprehensiveVars, apiVars, seederVars >>

\* the application re-renders one list of the section while the reader is
\* suspended
SectionRerender ==
    /\ sectionPc \in {"count", "read"}
    /\ sectionRerenders < MaxRerenders
    /\ sectionRerenders' = sectionRerenders + 1
    /\ \E k \in 1..Len(sectionSelectors), list \in SeqsUpTo(ItemTexts, MaxItems) :
          /\ list # sectionLists[k]
          /\ sectionLists' = [sectionLists EXCEPT ![k] = list]
    /\ UNCHANGED << sectionName, sectionPresent, sectionPc, sectionSelector,
                    sectionProbes, entries, searchVars, welcomeVars, loginVars, detailVars,
                    comprehensiveVars, apiVars, seederVars >>

SectionInit ==
    /\ sectionName = "none"
    /\ sectionPresent \in BOOLEAN
    /\ sectionLists \in SectionPages
    /\ sectionPc = "idle"
    /\ sectionSelector = 0
    /\ sectionProbes = << >>
    /\ sectionRerenders = 0
    /\ entries = NotReturned


(***************************************************************************)
(* ApiHelpers.  apiLog records every operation with the request it issued; *)
(* the server's answers are the inputs.                                    *)
(***************************************************************************)
MaxApiCalls == 3   \* operations on one ApiHelpers object

NoSession == "undefined"
SessionIds == { "s1", "s2" }

\* an operation as recorded in apiLog: whether it issued a request, the
\* session id of the Cookie header it sent (NoSession: no Cookie header) and
\* how it ended
Operation(op, sent, cookie, outcome) ==
    [op |-> op, sent |-> sent, cookie |-> cookie, outcome |-> outcome]

\* getHeaders(): the session id of the Cookie header, if (this.sessionId)
getHeaders(id) == id

ApiReady == apiPc \in {"idle", "raised"} /\ Len(apiLog) < MaxApiCalls

\* mutant: a failed authenticate drops the session held
AuthenticateClearsOnFailure ==
    /\ ApiReady
    /\ \/ \E id \in SessionIds \cup {NoSession} :
             /\ sessionId' = id
             /\ apiPc' = "idle"
             /\ apiLog' = Append(apiLog, Operation("authenticate", TRUE, NoSession, "ok"))
       \/ \E failure \in {"notOk", "transportError", "noJson"} :
             /\ sessionId' = NoSession
             /\ apiPc' = "raised"
             /\ apiLog' = Append(apiLog, Operation("authenticate", TRUE, NoSession, failure))
    /\ UNCHANGED << searchVars, welcomeVars, loginVars, detailVars,
                    comprehensiveVars, sectionVars, seederVars >>

\* authenticate(username, password): the POST carries a Content-Type header
\* only.  An OK answer has a JSON body whose sessionId (possibly absent) is
\* stored; a non-OK answer, a transport error and a body that is no JSON
\* raise to the caller
Authenticate ==
    /\ ApiReady
    /\ \/ \E id \in SessionIds \cup {NoSession} :
             /\ sessionId' = id
             /\ apiPc' = "idle"
             /\ apiLog' = Append(apiLog, Operation("authenticate", TRUE, NoSession, "ok"))
       \/ \E failure \in {"notOk", "transportError", "noJson"} :
             /\ sessionId' = sessionId
             /\ apiPc' = "raised"
             /\ apiLog' = Append(apiLog, Operation("authenticate", TRUE, NoSession, failure))
    /\ UNCHANGED << searchVars, welcomeVars, loginVars, detailVars,
                    comprehensiveVars, sectionVars, seederVars >>

\* createTestPatient, deletePatient, searchPatients, getPatient,
\* getSystemInfo, getLocations: one request with headers: this.getHeaders();
\* some raise when the request fails, others log or return a default
Request ==
    /\ ApiReady
    /\ \E outcome \in {"ok", "failed"} :
          /\ apiLog' = Append(apiLog, Operation("request", TRUE, getHeaders(sessionId), outcome))
          /\ apiPc' \in (IF outcome = "ok" THEN {"idle"} ELSE {"idle", "raised"})
    /\ UNCHANGED << sessionId, searchVars, welcomeVars, loginVars, detailVars,
                    comprehensiveVars, sectionVars, seederVars >>

\* verifyConnectivity(): a GET of the session resource with a timeout and no
\* headers; returns response.ok(), false on an error
VerifyConnectivity ==
    /\ ApiReady
    /\ \E outcome \in {"ok", "failed"} :
          apiLog' = Append(apiLog, Operation("verifyConnectivity", TRUE, NoSession, outcome))
    /\ apiPc' = "idle"
    /\ UNCHANGED << sessionId, searchVars, welcomeVars, loginVars, detailVars,
                    comprehensiveVars, sectionVars, seederVars >>

\* logout(): if (this.sessionId) { try { await delete(session, getHeaders()) }
\* catch { log } finally { this.sessionId = undefined } }
Logout ==
    /\ ApiReady
    /\ IF sessionId # NoSession
       THEN \E outcome \in {"ok", "failed"} :
               apiLog' = Append(apiLog, Operation("logout", TRUE, getHeaders(sessionId), outcome))
       ELSE apiLog' = Append(apiLog, Operation("logout", FALSE, NoSession, "ok"))
    /\ sessionId' = NoSession
    /\ apiPc' = "idle"
    /\ UNCHANGED << searchVars, welcomeVars, loginVars, detailVars,
                    comprehensiveVars, sectionVars, seederVars >>

ApiInit ==
    /\ apiPc = "idle"
    /\ sessionId = NoSession
    /\ apiLog = << >>

(***************************************************************************)
(* DataSeeder, used by a sequence of awaited calls.  The server hands out  *)
(* the uuids 1, 2, ... to the patients it creates.                         *)
(***************************************************************************)
MaxUuids == 2   \* patients the server has created before the last seeding call
testPatients == << "John Doe", "Jane Smith", "Michael Johnson" >>

Elements(seq) == {seq[i] : i \in 1..Len(seq)}

\* seedPatientsForSearch() is called
SeedPatientsForSearch ==
    /\ seederPc = "idle"
    /\ nextUuid < MaxUuids
    /\ seederPc' = "seeding"
    /\ seedIndex' = 1
    /\ UNCHANGED << createdPatients, nextUuid, serverPatients, createdSince,
                    deletesIssued, searchVars, welcomeVars, loginVars, detailVars,
                    comprehensiveVars, sectionVars, apiVars >>

\* mutant: a patient whose creation failed is tracked as well
CreateTestPatientTracksFailure ==
    /\ seederPc = "seeding"
    /\ \/ /\ createdPatients' = Append(createdPatients, nextUuid + 1)
          /\ createdSince' = createdSince \cup {nextUuid + 1}
          /\ serverPatients' = serverPatients \cup {nextUuid + 1}
          /\ nextUuid' = nextUuid + 1
       \/ /\ createdPatients' = Append(createdPatients, nextUuid + 1)
          /\ UNCHANGED << createdSince, serverPatients >>
          /\ nextUuid' = nextUuid + 1
    /\ seedIndex' = seedIndex + 1
    /\ seederPc' = IF seedIndex < Len(testPatients) THEN "seeding" ELSE "idle"
    /\ UNCHANGED << deletesIssued, searchVars, welcomeVars, loginVars, detailVars,
                    comprehensiveVars, sectionVars, apiVars >>

\* try { patient = await createTestPatient(patientData);
\* this.createdPatients.push(patient.uuid) } catch { log }: the call returns
\* the uuid of the patient the server created, or it raises (the request
\* failed, or the answer of a server that did create the patient was lost)
CreateTestPatient ==
    /\ seederPc = "seeding"
    /\ \/ /\ createdPatients' = Append(createdPatients, nextUuid + 1)
          /\ createdSince' = createdSince \cup {nextUuid + 1}
          /\ serverPatients' = serverPatients \cup {nextUuid + 1}
          /\ nextUuid' = nextUuid + 1
       \/ UNCHANGED << createdPatients, createdSince, serverPatients, nextUuid >>
       \/ /\ serverPatients' = serverPatients \cup {nextUuid + 1}
          /\ nextUuid' = nextUuid + 1
          /\ UNCHANGED << createdPatients, createdSince >>
    /\ seedIndex' = seedIndex + 1
    /\ seederPc' = IF seedIndex < Len(testPatients) THEN "seeding" ELSE "idle"
    /\ UNCHANGED << deletesIssued, searchVars, welcomeVars, loginVars, detailVars,
                    comprehensiveVars, sectionVars, apiVars >>

\* cleanup() is called: with a non-empty list cleanupPatients maps
\* deletePatient over it, which issues every delete before any settles;
\* with an empty list cleanup returns at once
Cleanup ==
    /\ seederPc = "idle"
    /\ deletesIssued' = createdPatients
    /\ IF Len(createdPatients) > 0
       THEN /\ seederPc' = "cleaning"
            /\ createdSince' = createdSince
       ELSE /\ seederPc' = "idle"
            /\ createdSince' = {}
    /\ UNCHANGED << createdPatients, seedIndex, nextUuid, serverPatients,
                    searchVars, welcomeVars, loginVars, detailVars,
                    comprehensiveVars, sectionVars, apiVars >>

\* Promise.allSettled resolves: every delete has succeeded or failed (a
\* failure is logged by deletePatient); this.createdPatients = []
CleanupSettled ==
    /\ seederPc = "cleaning"
    /\ \E deleted \in SUBSET Elements(deletesIssued) :
          serverPatients' = serverPatients \ deleted
    /\ createdPatients' = << >>
    /\ createdSince' = {}
    /\ seederPc' = "idle"
    /\ UNCHANGED << seedIndex, nextUuid, deletesIssued, searchVars, welcomeVars, loginVars, detailVars,
                    comprehensiveVars, sectionVars, apiVars >>

SeederInit ==
    /\ seederPc = "idle"
    /\ createdPatients = << >>
    /\ seedIndex = 0
    /\ nextUuid = 0
    /\ serverPatients = {}
    /\ createdSince = {}
    /\ deletesIssued = << >>

(***************************************************************************)
(* Specifications                                                          *)
(***************************************************************************)
SearchOff ==
    /\ pc = "off"
    /\ query = << >>
    /\ rows = << >>
    /\ oldRowTexts = << >>
    /\ waitResult = "None"
    /\ polls = 0
    /\ attempt = 0
    /\ patients = << >>
    /\ result = NoResult
    /\ events = << >>
    /\ clicked = -1
    /\ selection = NoSelection
    /\ info = NoInfo

WelcomeOff ==
    /\ h4Text = NoElement
    /\ welcome = NoWelcome
    /\ parts = NotCalled

LoginOff ==
    /\ shape = "none"
    /\ options = << >>
    /\ username = << >>
    /\ password = "none"
    /\ location = << >>
    /\ selected = NoLabel
    /\ loginEvents = << >>
    /\ listed = NotListed
    /\ handed = NoLabel

ComprehensiveOff ==
    /\ comprehensivePc = "off"
    /\ inFlight = [o \in Operations |-> 0]

SectionOff ==
    /\ sectionName = "none"
    /\ sectionPresent = FALSE
    /\ sectionLists = << >>
    /\ sectionPc = "off"
    /\ sectionSelector = 0
    /\ sectionProbes = << >>
    /\ sectionRerenders = 0
    /\ entries = NotReturned

ApiOff ==
    /\ apiPc = "off"
    /\ sessionId = NoSession
    /\ apiLog = << >>

SeederOff ==
    /\ seederPc = "off"
    /\ createdPatients = << >>
    /\ seedIndex = 0
    /\ nextUuid = 0
    /\ serverPatients = {}
    /\ createdSince = {}
    /\ deletesIssued = << >>

RestOff == ComprehensiveOff /\ SectionOff /\ ApiOff /\ SeederOff

DetailOff ==
    /\ elements = << >>
    /\ genderPc = "off"
    /\ genderProbes = << >>
    /\ patientGender = NotRead
    /\ agePc = "off"
    /\ patientAge = NotRead
    /\ birthdatePc = "off"
    /\ selectorIndex = 0
    /\ birthdateProbes = << >>
    /\ patientBirthdate = NotRead

\* PatientSearchPage.searchPatient against a result table that re-renders
Init ==
    SearchInit(RowLists) /\ WelcomeOff /\ LoginOff /\ loginPc = "off" /\ DetailOff
    /\ RestOff
Next ==
    \/ searchPatient
    \/ DomChange
    \/ GetPatientInfo
    \/ SearchAndSelectPatient
    \/ SelectPatientFromResults
Spec == Init /\ [][Next]_vars

\* the same, with the scheduling of the event loop: an awaited primitive
\* settles and a timer fires, so a suspended searchPatient is resumed
LiveInit ==
    SearchInit(LiveRowLists) /\ WelcomeOff /\ LoginOff /\ loginPc = "off" /\ DetailOff
    /\ RestOff
LiveNext == searchPatient \/ LiveDomChange
LiveSpec == LiveInit /\ [][LiveNext]_vars /\ WF_vars(searchPatient)

\* HomePage.getWelcomeMessageParts on every h4 text
WelcomeSpecInit ==
    WelcomeInit /\ SearchOff /\ LoginOff /\ loginPc = "home" /\ DetailOff
    /\ RestOff
WelcomeNext == GetWelcomeMessageParts
WelcomeSpec == WelcomeSpecInit /\ [][WelcomeNext]_vars

\* LoginPage.login followed by HomePage.getWelcomeMessageParts
LoginSpecInit ==
    LoginInit /\ SearchOff /\ WelcomeOff /\ DetailOff /\ RestOff
LoginNext ==
    \/ GetLocationOptions
    \/ FillUsername
    \/ FillPassword
    \/ SelectLocation
    \/ ClickLogin
    \/ GetWelcomeMessageParts
LoginSpec == LoginSpecInit /\ [][LoginNext]_vars

\* the three readers of PatientDetailPage on every page of Pages
DetailSpecInit ==
    DetailInit /\ SearchOff /\ WelcomeOff /\ LoginOff /\ loginPc = "off"
    /\ RestOff
DetailNext ==
    \/ GenderScoped
    \/ GenderPageWide
    \/ GetPatientAge
    \/ BirthdateFromAge
    \/ BirthdateSelector
DetailSpec == DetailSpecInit /\ [][DetailNext]_vars

\* getComprehensivePatientData on a patient page
ComprehensiveSpecInit ==
    /\ ComprehensiveInit
    /\ SearchOff /\ WelcomeOff /\ LoginOff /\ loginPc = "off" /\ DetailOff
    /\ SectionOff /\ ApiOff /\ SeederOff
ComprehensiveNext ==
    \/ GetComprehensivePatientData
    \/ \E o \in Operations : PrimitiveSettles(o)
    \/ Gathered
    \/ ComprehensiveReturn
ComprehensiveSpec == ComprehensiveSpecInit /\ [][ComprehensiveNext]_vars

\* the three section readers on a patient page the application may re-render
SectionSpecInit ==
    /\ SectionInit
    /\ SearchOff /\ WelcomeOff /\ LoginOff /\ loginPc = "off" /\ DetailOff
    /\ ComprehensiveOff /\ ApiOff /\ SeederOff
SectionNext ==
    \/ GetPatientSection
    \/ HasSectionWithContent
    \/ CountElements
    \/ ReadElement
    \/ SectionReject
    \/ SectionReturn
    \/ SectionRerender
SectionSpec == SectionSpecInit /\ [][SectionNext]_vars

\* one ApiHelpers object used by a sequence of awaited calls
ApiSpecInit ==
    /\ ApiInit
    /\ SearchOff /\ WelcomeOff /\ LoginOff /\ loginPc = "off" /\ DetailOff
    /\ ComprehensiveOff /\ SectionOff /\ SeederOff
ApiNext ==
    \/ Authenticate
    \/ Request
    \/ VerifyConnectivity
    \/ Logout
ApiSpec == ApiSpecInit /\ [][ApiNext]_vars

\* one DataSeeder used by a sequence of awaited calls
SeederSpecInit ==
    /\ SeederInit
    /\ SearchOff /\ WelcomeOff /\ LoginOff /\ loginPc = "off" /\ DetailOff
    /\ ComprehensiveOff /\ SectionOff /\ ApiOff
SeederNext ==
    \/ SeedPatientsForSearch
    \/ CreateTestPatient
    \/ Cleanup
    \/ CleanupSettled
SeederSpec == SeederSpecInit /\ [][SeederNext]_vars

(***************************************************************************)
(* Properties of searchPatient                                             *)
(***************************************************************************)
Positions(e) == {i \in 1..Len(events) : events[i] = e}
Count(e) == Cardinality(Positions(e))

\* the row contains the query, case-insensitively
ContainsQuery(text, q) == includes(toLowerCase(text), toLowerCase(q))

\* the row is a hit: it has a name cell, and the name contains the query
IsHit(row, q) == Len(row) >= 2 /\ trim(row[2]) # << >> /\ ContainsQuery(trim(row[2]), q)

\* the step in which extractPatients returns
ExtractStep == pc = "extracting" /\ events' = Append(events, "extract")

\* C1: the wait reports a match only if some live row is absent from the
\* baseline captured before the search and contains the query
\* case-insensitively; it ends as timed out only at the deadline.
C1_MatchedOnlyOnNewRow ==
    [][ /\ (waitResult # "Matched" /\ waitResult' = "Matched") =>
              \E i \in 1..Len(rows) :
                 /\ \A b \in 1..Len(oldRowTexts) : oldRowTexts[b] # textContent(rows[i])
                 /\ ContainsQuery(textContent(rows[i]), query)
        /\ (waitResult # "TimedOut" /\ waitResult' = "TimedOut") => polls' = MaxPolls
      ]_vars

\* C2: within one call the baseline is captured, then the action (fill
\* query, Enter) is dispatched, then the convergence poll starts.
C2_BaselineActionPoll ==
    /\ \A b \in Positions("baseline"), f \in Positions("fill") : b < f
    /\ \A f \in Positions("fill"), e \in Positions("enter") : f < e
    /\ \A e \in Positions("enter"), p \in Positions("poll") : e < p
    /\ Positions("poll") # {} => Positions("enter") # {}
    /\ Positions("enter") # {} => Positions("fill") # {}
    /\ Positions("fill") # {} => Positions("baseline") # {}

C2_Witness == pc = "waiting" /\ polls = 1

\* C3: the action is dispatched at most MaxAttempts times, at most
\* MaxAttempts extractions are made, and the call returns with results at
\* the first extraction that finds a hit: after k-1 empty attempts that is
\* extraction k.
C3_RetryMonotone ==
    /\ [](/\ Count("enter") <= MaxAttempts
          /\ Count("extract") <= MaxAttempts
          /\ Count("extract") <= attempt + 1)
    /\ [][ ExtractStep =>
             IF \E i \in 1..Len(rows) : IsHit(rows[i], query)
             THEN /\ pc' = "done"
                  /\ result'.hasResults
                  /\ Count("extract")' = attempt + 1
             ELSE pc' = "sleeping"
         ]_vars

C3_Witness == pc = "done" /\ result.hasResults /\ Count("extract") = 3

\* C4: when every extraction attempt found nothing, the outcome has its
\* success flag false and an empty record list.
C4_ExhaustedIsFailure ==
    (pc = "done" /\ Count("extract") = MaxAttempts /\ patients = << >>) =>
        /\ result.success = FALSE
        /\ result.patients = << >>

\* C5 (as stated): after an empty attempt and the sleep, the next attempt
\* captures a fresh baseline and dispatches the action again.
C5_RetryRepeatsCycle ==
    \A i \in Positions("sleep") : i < Len(events) => events[i + 1] = "baseline"

\* C5 (amended): after an empty attempt and the sleep, the next attempt only
\* extracts again; the baseline is captured once and the action dispatched
\* once per call.
C5_RetryRepeatsExtraction ==
    /\ \A i \in Positions("sleep") : i < Len(events) => events[i + 1] = "extract"
    /\ Count("baseline") <= 1
    /\ Count("fill") <= 1
    /\ Count("enter") <= 1

C5_Witness == \E i \in Positions("sleep") : i < Len(events)

\* C6: the wait never raises: matched or timed out, extraction runs next,
\* and a hit present at extraction time is returned even after a timeout.
C6_TimeoutNotRaised ==
    [][ /\ pc = "waiting" => pc' \in {"waiting", "extracting"}
        /\ (pc = "waiting" /\ pc' = "extracting") => waitResult' \in {"Matched", "TimedOut"}
        /\ (ExtractStep /\ waitResult = "TimedOut") =>
              \A i \in 1..Len(rows) :
                 IsHit(rows[i], query) =>
                    /\ pc' = "done"
                    /\ \E n \in 1..Len(result'.patients) :
                          result'.patients[n].index = i - 1
      ]_vars

C6_Witness == pc = "done" /\ waitResult = "TimedOut" /\ result.hasResults

\* C7: a live row satisfies the wait's test (its text contains the query)
\* if and only if extractPatients keeps it.
C7_SamePredicate ==
    pc = "extracting" =>
        \A i \in 1..Len(rows) :
            ContainsQuery(trim(textContent(rows[i])), query)
                <=> extractRow(rows, query, i - 1) # << >>

\* C8: every call returns (or aborts on a failed primitive) after one wait
\* of at most MaxPolls polls and at most MaxAttempts extractions.
C8_Terminates ==
    /\ [](Count("poll") <= MaxPolls /\ Count("extract") <= MaxAttempts)
    /\ (pc = "clear") ~> (pc \in {"done", "raised"})

C8_Witness == pc = "done" /\ Count("extract") = MaxAttempts /\ ~result.hasResults

(***************************************************************************)
(* Properties of getWelcomeMessageParts and login                          *)
(***************************************************************************)
\* C9 (as stated): for "Logged in as U (Role) at L." the result has
\* userInfo = U and ward = L.
C9_UserInfoIsU ==
    (parts # NotCalled /\ welcome # NoWelcome) =>
        /\ ~parts.isNull
        /\ parts.userInfo = welcome.U
        /\ parts.ward = welcome.L

HasLineBreak(s) == \E i \in 1..Len(s) : IsLineTerminator(s[i])

\* C9 (amended): for "Logged in as U (Role) at L." the result has userInfo =
\* Role (the text in the parentheses) and ward = L, provided U has no "(",
\* Role does not contain ") at ", L does not start with white space and
\* none of them has a line break.
C9_UserInfoIsRole ==
    (/\ parts # NotCalled
     /\ welcome # NoWelcome
     /\ ~includes(welcome.U, <<"(">>)
     /\ ~includes(welcome.Role, CloseAt)
     /\ ~IsSpace(welcome.L[1])
     /\ ~HasLineBreak(welcome.U \o welcome.Role \o welcome.L)) =>
        /\ ~parts.isNull
        /\ parts.userInfo = welcome.Role
        /\ parts.ward = welcome.L

C9_Witness ==
    /\ parts # NotCalled
    /\ welcome = [U |-> <<"a", "b">>, Role |-> <<"a">>, L |-> <<"a", ".">>]

\* C10: after a successful login with location selector loc (a label or
\* 'random'), ward equals loc and userInfo equals the username.
C10_WardIsSelector ==
    (loginPc = "home" /\ parts # NotCalled) =>
        /\ ~parts.isNull
        /\ parts.ward = location
        /\ parts.userInfo = username

(***************************************************************************)
(* Properties of the decompositions, the field probes and the location     *)
(* control                                                                 *)
(***************************************************************************)

\* the anchor pattern /Logged in as .*?\((.*?)\) at (.*)\.?$/ has a match in
\* t: the literal, later a '(', later ') at ', and no line terminator from
\* the end of the literal to the end of t
HasAnchor(t) ==
    \E i, j, k \in 1..Len(t) :
        /\ i + 12 <= Len(t) /\ SubSeq(t, i, i + 12) = LoggedInAs
        /\ j >= i + 13 /\ t[j] = "("
        /\ k > j /\ k + 4 <= Len(t) /\ SubSeq(t, k, k + 4) = CloseAt
        /\ DotRun(t, i + 13, j - 1)
        /\ DotRun(t, j + 1, k - 1)
        /\ DotRun(t, k + 5, Len(t))

\* the cases in which getWelcomeMessageParts has nothing to decompose
NothingToParse ==
    \/ ~h4Text.present
    \/ trim(h4Text.text) = << >>
    \/ ~HasAnchor(trim(h4Text.text))

\* C11 (as stated): getWelcomeMessageParts returns null or an object whose
\* userInfo and ward are both populated (non-empty), never an object with
\* one of them empty.
C11_NullOrBothPopulated ==
    (parts # NotCalled /\ ~parts.isNull) =>
        (parts.userInfo # << >> /\ parts.ward # << >>)

\* C11 (amended): getWelcomeMessageParts returns null exactly when the
\* element is missing, its trimmed text is empty or the text has no match of
\* the anchor pattern; otherwise it returns an object whose two fields are
\* the two captures of one match, each of which may be the empty text.
C11_NullOrBothCaptures ==
    parts # NotCalled =>
        /\ parts.isNull <=> NothingToParse
        /\ parts.isNull => parts = Null
        /\ ~parts.isNull =>
              \E k \in 1..Len(h4Text.text) :
                  /\ SubSeq(trim(h4Text.text), k, k + 4) = CloseAt
                  /\ \E j \in 1..k :
                        /\ trim(h4Text.text)[j] = "("
                        /\ parts.userInfo = SubSeq(trim(h4Text.text), j + 1, k - 1)
                  /\ parts.ward =
                        dropFinalPeriod(trim(SubSeq(trim(h4Text.text), k + 5,
                                                    Len(trim(h4Text.text)))))

\* an object is returned whose userInfo is the empty capture
C11_Witness ==
    /\ parts # NotCalled /\ ~parts.isNull
    /\ parts.userInfo = << >> /\ parts.ward # << >>

\* the text the age locator resolves to is the compound text of the example
AgeTextIs(t) ==
    /\ first(elements, "text=/age/") > 0
    /\ elementText(elements[first(elements, "text=/age/")]) = t

\* C12 (as stated): on the text "49 year(s) ( 22.Mar.1976)" getPatientAge
\* returns "49 year(s)" and getPatientBirthdate returns "22.Mar.1976".
C12_AgeAndBirthdateSplit ==
    (AgeTextIs(AgeAndBirthdate) /\ agePc = "done" /\ birthdatePc = "done") =>
        (patientAge = AgeAlone /\ patientBirthdate = Date22)

\* C12 (amended): on the text "49 year(s) ( 22.Mar.1976)" getPatientAge
\* returns the whole text, "49 year(s) ( 22.Mar.1976)", and
\* getPatientBirthdate returns "22.Mar.1976".
C12_AgeIsWholeText ==
    /\ (AgeTextIs(AgeAndBirthdate) /\ agePc = "done") =>
           patientAge = AgeAndBirthdate
    /\ (AgeTextIs(AgeAndBirthdate) /\ birthdatePc = "done") =>
           patientBirthdate = Date22

\* both readers have returned on a page that shows the compound text
C12_Witness ==
    /\ AgeTextIs(AgeAndBirthdate)
    /\ agePc = "done" /\ patientAge = AgeAndBirthdate
    /\ birthdatePc = "done" /\ patientBirthdate = Date22

\* the age text exists and the birthdate pattern has no match in it
AgeTextWithoutBirthdate ==
    /\ getPatientAge(elements) # << >>
    /\ birthdateMatch(getPatientAge(elements)) = << >>

\* the text content the k-th fallback selector resolves to ('' when its
\* textContent rejects)
SelectorText(k) ==
    IF first(elements, selectors[k]) = 0 THEN << >>
    ELSE elementText(elements[first(elements, selectors[k])])

\* the k-th fallback selector gives a text that is not blank
SelectorSucceeds(k) == trim(SelectorText(k)) # << >>

probeOrder == <<"text=/age/">> \o selectors

\* the n-th probe gives a value
ProbeSucceeds(n) ==
    IF n = 1
    THEN getPatientAge(elements) # << >>
         /\ birthdateMatch(getPatientAge(elements)) # << >>
    ELSE SelectorSucceeds(n - 1)

\* the value of the n-th probe
ProbeValue(n) ==
    IF n = 1
    THEN trim(collapseSpace(birthdateMatch(getPatientAge(elements))[1]))
    ELSE trim(collapseSpace(removeParens(SelectorText(n - 1))))

\* C14: getPatientBirthdate consults its probes in the fixed order age text,
\* then the three selectors in list order; a probe is consulted only after
\* every earlier probe has failed; the result is the value of the first probe
\* that succeeds, and '' (without an exception) when all four have failed.
C14_ProbesInOrder ==
    LET n == Len(birthdateProbes)
    IN  /\ birthdatePc \in {"call", "loop", "done"}
        /\ n <= Len(probeOrder)
        /\ birthdateProbes = SubSeq(probeOrder, 1, n)
        /\ \A m \in 1..(n - 1) : ~ProbeSucceeds(m)
        /\ birthdatePc = "done" =>
              /\ n >= 1
              /\ IF ProbeSucceeds(n) THEN patientBirthdate = ProbeValue(n)
                 ELSE n = Len(probeOrder) /\ patientBirthdate = << >>

\* the third probe gives the value after the first two have failed
C14_Witness ==
    /\ birthdatePc = "done"
    /\ birthdateProbes = SubSeq(probeOrder, 1, 3)
    /\ patientBirthdate = Date2

\* C15: when the age text exists and the birthdate pattern does not match it,
\* getPatientBirthdate does not return that text and does not raise: it goes
\* on to the first fallback selector.
C15_MismatchIsFailure ==
    (AgeTextWithoutBirthdate /\ Len(birthdateProbes) >= 1) =>
        /\ birthdatePc \in {"loop", "done"}
        /\ birthdatePc = "loop" \/ Len(birthdateProbes) >= 2
        /\ Len(birthdateProbes) >= 2 => birthdateProbes[2] = selectors[1]
        /\ patientBirthdate # getPatientAge(elements)

\* the age text holds a date outside parentheses: the pattern fails, and the
\* first selector reads the element again
C15_Witness ==
    /\ AgeTextIs(AgeThenDate)
    /\ birthdatePc = "done"
    /\ Len(birthdateProbes) = 2
    /\ patientBirthdate = removeParens(AgeThenDate)

\* the trimmed text the locator sel gives getPatientGender ('' when its
\* textContent rejects)
GenderProbe(sel) ==
    IF first(elements, sel) = 0 THEN << >>
    ELSE trim(elementText(elements[first(elements, sel)]))

\* C16: getPatientGender returns the value of the demographics-scoped probe
\* when that is not empty, else the value of the page-wide probe; it returns
\* '' only when both probes fail.
C16_FirstNonEmptyProbe ==
    genderPc = "done" =>
        patientGender =
            IF GenderProbe(".demographics text=/gender/") # << >>
            THEN GenderProbe(".demographics text=/gender/")
            ELSE GenderProbe("text=/gender/")

\* login has gone past selectLocation
LocationSelected ==
    loginPc \in {"click", "home", "loginError"}

\* C17: when the shape probe fails, the control is handled as an ItemList,
\* by getLocationOptions and by selectLocation alike: the options are those
\* of the items, and selectLocation ends as the ItemList strategy ends
\* (it raises only when that strategy finds no item to click).
C17_ProbeFailureMeansItemList ==
    shape = "none" =>
        /\ listed # NotListed => listed = getLocationOptionsFromButtons(options)
        /\ loginPc = "raised" =>
              << >> \in selectLocation("UL", options, location)
        /\ LocationSelected =>
              << selected >> \in selectLocation("UL", options, location)

\* the labels getLocationOptions returned came from getLocationOptionsFromButtons
ListedFromButtons ==
    /\ listed # NotListed
    /\ shape # "SELECT" \/ getLocationOptionsFromDropdown(options) = << >>

\* C18: the list getLocationOptionsFromButtons returns is never empty.
C18_ButtonsNeverEmpty == ListedFromButtons => listed # << >>

\* C19: login clicks the login button only after username and password were
\* filled and a location was selected, in that order; when selectLocation
\* raises, login has raised with it and the button is not clicked.
C19_ClickAfterSelection ==
    /\ loginPc \in {"home", "loginError"} =>
          loginEvents = <<"username", "password", "location", "click">>
    /\ loginPc = "click" =>
          loginEvents = <<"username", "password", "location">>
    /\ LocationSelected =>
          << selected >> \in selectLocation(shape, options, location)
    /\ loginPc = "raised" =>
          /\ loginEvents = <<"username", "password">>
          /\ << >> \in selectLocation(shape, options, location)
    /\ \A i \in 1..Len(loginEvents) :
          loginEvents[i] = "click" =>
              i = 4 /\ SubSeq(loginEvents, 1, 3) = <<"username", "password", "location">>

\* no item carries the target: selectLocation has raised, nothing was clicked
C19_Witness ==
    /\ loginPc = "raised"
    /\ shape = "UL"
    /\ selectLocation(shape, options, location) = { << >> }
    /\ loginEvents = <<"username", "password">>

\* C20: in the ItemList rendering selectLocation clicks the item whose label
\* equals the target, which is what selectOption({label}) selects in the
\* NativeControl rendering, for every option list that holds the target.
C20_SameOptionInBothShapes ==
    (/\ LocationSelected
     /\ location # random
     /\ \E i \in 1..Len(options) : options[i] = location) =>
        /\ selectOption(options, location) = { << selected >> }
        /\ selected = location

(***************************************************************************)
(* C21-C30                                                                 *)
(***************************************************************************)
\* the operations that have a page primitive in flight
InFlightNow == {o \in Operations : inFlight[o] > 0}

\* C21: at every moment at most one page-object operation issued through the
\* page is in flight, in particular during getComprehensivePatientData
C21_AtMostOneInFlight == Cardinality(InFlightNow) <= 1

\* the label set selectLocation enumerates for the shape of the control
Enumerated ==
    IF shape = "SELECT" THEN nonEmpty(options)
    ELSE getLocationOptionsFromButtons(options)

\* C22: for target 'random' the label handed to the selection step is a
\* member of the label set enumerated for the shape, never undefined, also
\* when the enumerated set is empty
C22_RandomLabelIsEnumerated ==
    (location = random /\ handed # NoLabel) =>
        \E i \in 1..Len(Enumerated) : Enumerated[i] = handed

\* the item the strategies of selectLocationButton would yield when taken by
\* priority: the first item the exact-text locator matches, and only when
\* there is none the first item a has-text locator matches
PriorityPick(opts, loc) ==
    LET exact == {i \in 1..Len(opts) : trim(opts[i]) = loc}
        containing == {i \in 1..Len(opts) :
                          includes(toLowerCase(opts[i]), toLowerCase(loc))}
        hits == IF exact # {} THEN exact ELSE containing
    IN  opts[CHOOSE i \in hits : \A j \in hits : i <= j]

\* C23: in the ItemList shape the element selectLocationButton clicks is the
\* one found by its highest-priority locator strategy that resolves, not the
\* one that comes first in the document
C23_ClickedByStrategyPriority ==
    (LocationSelected /\ shape = "UL") =>
        selected = PriorityPick(options, handed)

\* the primitives of kind k in sectionProbes, up to position n
ProbesOfKind(k, n) == {j \in 1..n : sectionProbes[j].kind = k}

SectionRejected == ProbesOfKind("reject", Len(sectionProbes)) # {}

\* what the reader pushes for the texts read, in the order they were read
RECURSIVE PushedFrom(_)
PushedFrom(k) ==
    IF k > Len(sectionProbes) THEN << >>
    ELSE (IF sectionProbes[k].kind = "read"
          THEN pushed(sectionName, sectionProbes[k].text) ELSE << >>)
         \o PushedFrom(k + 1)

\* C24: the three section readers try their selectors in list order; the
\* entries returned all come from the first selector that resolves to at
\* least one element, and no later selector is consulted, also when every
\* element of that selector is filtered out (the result is then empty); a
\* failure yields the empty list, never an error
C24_FirstResolvingSelectorOnly ==
    /\ \A k \in ProbesOfKind("count", Len(sectionProbes)) :
          /\ sectionProbes[k].selector = Cardinality(ProbesOfKind("count", k))
          /\ sectionProbes[k].count > 0 =>
                \A j \in (k + 1)..Len(sectionProbes) :
                    /\ sectionProbes[j].kind # "count"
                    /\ sectionProbes[j].selector = sectionProbes[k].selector
    /\ \A k \in ProbesOfKind("read", Len(sectionProbes)) :
          \E j \in ProbesOfKind("count", k) :
              /\ sectionProbes[j].count > 0
              /\ sectionProbes[j].selector = sectionProbes[k].selector
    /\ sectionPc = "done" =>
          entries = IF SectionRejected THEN << >> ELSE PushedFrom(1)
    /\ sectionPc \in {"idle", "gate", "count", "read", "done"}

\* a reader has returned the empty list although a later selector matches an
\* element it would have pushed: the elements of the first resolving
\* selector read "None"
C24_Witness ==
    /\ sectionPc = "done"
    /\ ~SectionRejected
    /\ entries = << >>
    /\ \E k \in ProbesOfKind("read", Len(sectionProbes)) :
          includes(toLowerCase(sectionProbes[k].text), none)
    /\ \E s \in (sectionSelector + 1)..Len(sectionSelectors) :
          \E i \in 1..Len(sectionLists[s]) :
              pushed(sectionName, sectionLists[s][i]) # << >>

\* the value searchPatient has returned is consistent in itself
ResultConsistent ==
    result # NoResult =>
        /\ result.success
        /\ result.resultCount = Len(result.patients)
        /\ result.hasResults <=> Len(result.patients) > 0
        /\ \A k \in 1..Len(result.patients) :
              /\ result.patients[k].name # << >>
              /\ ContainsQuery(result.patients[k].name, query)

\* the patients extractPatients returns are read from the rows at their index
ExtractedFromRows ==
    /\ \A k \in 1..Len(patients') :
          LET p == patients'[k]
          IN  /\ p.index \in 0..(Len(rows) - 1)
              /\ Len(rows[p.index + 1]) >= 2
              /\ p.name = trim(rows[p.index + 1][2])
              /\ p.id = trim(rows[p.index + 1][1])
    /\ result' # NoResult => result'.patients = patients'

\* C25: the value searchPatient returns is consistent: resultCount is the
\* length of patients, hasResults holds exactly when patients is non-empty,
\* every patient has a non-empty name containing the query
\* case-insensitively and comes from a row of at least two cells, and its
\* index is the position of that row in the row set at extraction time
C25_ResultConsistent ==
    /\ []ResultConsistent
    /\ [][ExtractStep => ExtractedFromRows]_vars

\* searchPatient has returned a patient extracted from a row that is not the
\* first of the table
C25_Witness ==
    /\ pc = "done"
    /\ result.hasResults
    /\ result.resultCount = 1
    /\ result.patients[1].index > 0
    /\ ~IsHit(rows[1], query)

\* C26: when searchAndSelectPatient or selectPatientFromResults reports
\* success with selectedPatient p, the row clicked is the row at p.index,
\* also when the first rows of the table do not match the query
C26_ClickedRowIsSelectedPatient ==
    selection.success => clicked = selection.selectedPatient[1].index

\* C27: for the same row, the id and name getPatientInfo(index) returns are
\* the id and name extractPatients assigns to that row (id from the first
\* cell, name from the second)
C27_SameColumnLayout ==
    (info # NoInfo /\ result # NoResult) =>
        \A k \in 1..Len(result.patients) :
            result.patients[k].index = info.index =>
                /\ trim(info.id) = result.patients[k].id
                /\ trim(info.name) = result.patients[k].name

\* an authenticate that returned normally
IsAuthenticated(e) == e.op = "authenticate" /\ e.outcome = "ok"

\* before operation k, the most recent successful authenticate has not been
\* followed by a logout
SessionOpen(k) ==
    \E j \in 1..(k - 1) :
        /\ IsAuthenticated(apiLog[j])
        /\ \A l \in (j + 1)..(k - 1) : apiLog[l].op # "logout"

\* C28: a request carries a JSESSIONID cookie header exactly when the most
\* recent successful authenticate has not been followed by a logout; logout
\* clears the session id even when the server call fails, and logout
\* without a session issues no request
C28_CookieIffSessionOpen ==
    /\ \A k \in 1..Len(apiLog) :
          /\ apiLog[k].op \in {"request", "verifyConnectivity"} =>
                (apiLog[k].cookie # NoSession <=> SessionOpen(k))
          /\ apiLog[k].op = "logout" => (apiLog[k].sent <=> SessionOpen(k))
    /\ (apiLog # << >> /\ apiLog[Len(apiLog)].op = "logout") =>
          sessionId = NoSession

\* the step in which a failed authenticate ends
FailedAuthenticate ==
    /\ Len(apiLog') = Len(apiLog) + 1
    /\ apiLog'[Len(apiLog')].op = "authenticate"
    /\ apiLog'[Len(apiLog')].outcome # "ok"

\* C29: a failed authenticate (non-OK response or transport error) raises to
\* the caller and leaves the session id unchanged: it neither sets a new
\* session id nor clears one held from an earlier successful authenticate
C29_FailedAuthenticateKeepsSession ==
    [][FailedAuthenticate => (apiPc' = "raised" /\ sessionId' = sessionId)]_vars

\* an authenticate has failed while a session id was held, and it is still
\* held
C29_Witness ==
    /\ Len(apiLog) >= 2
    /\ IsAuthenticated(apiLog[Len(apiLog) - 1])
    /\ apiLog[Len(apiLog)].op = "authenticate"
    /\ apiLog[Len(apiLog)].outcome \in {"notOk", "transportError"}
    /\ apiPc = "raised"
    /\ sessionId \in SessionIds

\* the tracked list holds the uuids createTestPatient returned since the
\* last cleanup, each once
TracksCreated ==
    /\ Elements(createdPatients) = createdSince
    /\ Len(createdPatients) = Cardinality(createdSince)

\* the step in which cleanup returns
CleanupReturns ==
    \/ seederPc = "cleaning" /\ seederPc' # "cleaning"
    \/ seederPc = "idle" /\ seederPc' = "idle" /\ deletesIssued' = createdPatients

\* C30: the tracked list of DataSeeder holds the uuid of every patient
\* successfully created since the last cleanup and no other; cleanup issues
\* one delete per tracked uuid, does not raise when deletes fail, and leaves
\* the tracked list empty
C30_TracksExactlyCreated ==
    /\ [](TracksCreated /\ seederPc \in {"idle", "seeding", "cleaning"})
    /\ [](seederPc = "cleaning" => deletesIssued = createdPatients)
    /\ [][CleanupReturns => (seederPc' = "idle" /\ createdPatients' = << >>)]_vars

\* cleanup has returned after deletes for two tracked patients of which one
\* failed: the patient is still on the server, the tracked list is empty
C30_Witness ==
    /\ seederPc = "idle"
    /\ Len(deletesIssued) >= 2
    /\ createdPatients = << >>
    /\ \E u \in Elements(deletesIssued) : u \in serverPatients
    /\ \E u \in Elements(deletesIssued) : u \notin serverPatients
====
